---- MODULE Spec2Model ----
(***************************************************************************)
(* Query execution core of TrivialDB (src/src/database/database.cpp):      *)
(* dbms::iterate and its three access paths, the many-table join planner,  *)
(* and the statement drivers built on them.                                *)
(*                                                                         *)
(* Tables are named by small integers.  A table stores its records in      *)
(* rowid order; a record handle is the record's position in that order     *)
(* and the rowid is the 4-byte integer read from the record.  Column       *)
(* names are small integers shared by all tables (column c of a table      *)
(* exists when c <= schema[t]).  Column values are small non-NULL          *)
(* integers.  The table list of a statement names pairwise distinct        *)
(* tables.                                                                 *)
(***************************************************************************)
EXTENDS Integers, Sequences, FiniteSets, TLC

VARIABLES
    schema,       \* table -> number of columns (without __rowid__)
    data,         \* table -> sequence of records [rid, v], in rowid order
    idx,          \* set of <<table, column>> that have an index
    required_tables, \* the tables handed to iterate, a function on 0..n-1
    nodes,        \* the expression nodes of the statement (the heap of expr_node_t)
    cond,         \* the predicate: an index into nodes, 0 for a null pointer
    pc,           \* position of the running statement
    cache,        \* row cache: table -> handle of the cached record, 0 when none
    table_list,   \* the tables argument handed to the consumer
    record_list,  \* the records argument handed to the consumer
    rid_list,     \* the rowids argument handed to the consumer
    calls,        \* the consumer invocations made so far
    stopped,      \* the consumer has returned false
    log,          \* diagnostics and info lines written so far
    nread,        \* number of records opened so far
    raised,       \* number of predicate evaluations that threw so far
    two,          \* locals of iterate_two_tables_with_joint_cond_equal
    plan,         \* locals of iterate_many_tables (E, J, path, ...)
    frames,       \* iterators of the active iterate_many_tables_impl frames
    now,          \* level of the innermost iterate_many_tables_impl frame
    bit,          \* iterator of iterate_one_table
    stmt          \* locals of the statement driver

vars == <<schema, data, idx, required_tables, nodes, cond, pc, cache,
          table_list, record_list, rid_list, calls, stopped, log, nread,
          raised, two, plan, frames, now, bit, stmt>>

config == <<schema, idx, required_tables, nodes, cond>>

(***************************************************************************)
(* Bounds of the model.                                                    *)
(***************************************************************************)
MaxRows == 2
MaxVal == 1
MaxTotalRows == 4
MaxPlanTables == 3

IntMax == 2147483647

(***************************************************************************)
(* Expression nodes.  A node is an operator node (op # "NONE", with left   *)
(* and right children) or a term (term # "NONE").  typeerr marks a         *)
(* comparison of operands of incompatible types, which raises whenever     *)
(* it is evaluated.                                                        *)
(***************************************************************************)
Ref(t, c) == [op |-> "NONE", term |-> "COLUMN_REF", tab |-> t, col |-> c,
              val |-> 0, left |-> 0, right |-> 0, typeerr |-> FALSE]
Lit(v) == [op |-> "NONE", term |-> "LITERAL_INT", tab |-> 0, col |-> 0,
           val |-> v, left |-> 0, right |-> 0, typeerr |-> FALSE]
Bin(o, l, r) == [op |-> o, term |-> "NONE", tab |-> 0, col |-> 0,
                 val |-> 0, left |-> l, right |-> r, typeerr |-> FALSE]

\* A predicate under construction: its nodes and its root.
Atom(o, l, r) == [nodes |-> <<l, r, Bin(o, 1, 2)>>, root |-> 3]
BadAtom(o, l, r) == [nodes |-> <<l, r, [Bin(o, 1, 2) EXCEPT !.typeerr = TRUE]>>,
                     root |-> 3]
\* 1 / ref > 0: raises on ref = 0, TRUE on ref = 1, FALSE above.
DivAtom(r) == [nodes |-> <<Lit(1), r, Bin("DIV", 1, 2), Lit(0), Bin("GT", 3, 4)>>,
               root |-> 5]
Shift(nd, k) == [nd EXCEPT !.left = IF @ = 0 THEN 0 ELSE @ + k,
                           !.right = IF @ = 0 THEN 0 ELSE @ + k]
AndOf(p, q) ==
    LET k == Len(p.nodes)
        qs == [i \in 1..Len(q.nodes) |-> Shift(q.nodes[i], k)]
    IN [nodes |-> p.nodes \o qs \o <<Bin("AND", p.root, q.root + k)>>,
        root |-> k + Len(q.nodes) + 1]
NoPred == [nodes |-> <<>>, root |-> 0]

(***************************************************************************)
(* Collaborators (table manager, index manager, expression evaluator).     *)
(***************************************************************************)
lookup_column(t, c) == IF c \in 1..schema[t] THEN c ELSE -1
get_index(t, c) == <<t, c>> \in idx
RowCount(t) == Len(data[t])
Rid(t, h) == data[t][h].rid
Col(t, h, c) == data[t][h].v[c]

\* table_manager::cache_record as the access paths call it: the record with
\* handle h becomes the row bound for table t.
cache_record(c, t, h) == [c EXCEPT ![t] = h]

\* Handles of table t in the order of the index on column c, from the
\* first entry whose key is >= key (index_manager::get_iterator_lower_bound).
RECURSIVE SortHandles(_, _, _)
SortHandles(t, c, hs) ==
    IF hs = {} THEN <<>>
    ELSE LET m == CHOOSE h \in hs : \A g \in hs :
                      \/ Col(t, h, c) < Col(t, g, c)
                      \/ (Col(t, h, c) = Col(t, g, c) /\ h <= g)
         IN <<m>> \o SortHandles(t, c, hs \ {m})
IndexLowerBound(t, c, key) ==
    SortHandles(t, c, {h \in 1..RowCount(t) : Col(t, h, c) >= key})

\* table_manager::get_record_iterator_lower_bound(0): every record, in
\* rowid order.
ScanOrder(t) == [h \in 1..RowCount(t) |-> h]

\* expression::eval on a value node under a binding of tables to record
\* handles (0: no record bound), the records being those of d.  Err stands
\* for a thrown message.
Err == -1
RECURSIVE EvalValOn(_, _, _)
EvalValOn(d, n, bind) ==
    LET nd == nodes[n] IN
    IF nd.term = "COLUMN_REF" THEN
        IF nd.tab \in DOMAIN bind /\ bind[nd.tab] # 0 /\ nd.col \in 1..schema[nd.tab]
        THEN d[nd.tab][bind[nd.tab]].v[nd.col] ELSE Err
    ELSE IF nd.term = "LITERAL_INT" THEN nd.val
    ELSE IF nd.op = "DIV" THEN
        LET l == EvalValOn(d, nd.left, bind)
            r == EvalValOn(d, nd.right, bind)
        IN IF l = Err \/ r = Err \/ r = 0 THEN Err ELSE l \div r
    ELSE IF nd.op = "SUB" THEN
        LET l == EvalValOn(d, nd.left, bind)
            r == EvalValOn(d, nd.right, bind)
        IN IF l = Err \/ r = Err THEN Err ELSE l - r
    ELSE Err
EvalVal(n, bind) == EvalValOn(data, n, bind)

\* typecast::expr_to_bool(expression::eval(n)): 1 TRUE, 0 FALSE, Err thrown.
RECURSIVE EvalBoolOn(_, _, _)
EvalBoolOn(d, n, bind) ==
    LET nd == nodes[n] IN
    IF nd.op = "AND" THEN
        LET l == EvalBoolOn(d, nd.left, bind)
            r == EvalBoolOn(d, nd.right, bind)
        IN IF l = Err \/ r = Err THEN Err ELSE IF l = 1 /\ r = 1 THEN 1 ELSE 0
    ELSE IF nd.op \in {"EQ", "LT", "GT"} THEN
        LET l == EvalValOn(d, nd.left, bind)
            r == EvalValOn(d, nd.right, bind)
        IN IF l = Err \/ r = Err \/ nd.typeerr THEN Err
           ELSE IF nd.op = "EQ" THEN (IF l = r THEN 1 ELSE 0)
           ELSE IF nd.op = "LT" THEN (IF l < r THEN 1 ELSE 0)
           ELSE (IF l > r THEN 1 ELSE 0)
    ELSE Err
EvalBool(n, bind) == EvalBoolOn(data, n, bind)

(***************************************************************************)
(* Shared pieces of the access paths.                                      *)
(***************************************************************************)
\* A destructor that leaves the cache as it is.
ClearedCache_Kept == cache
\* The cache after expression::cache_clear(), which the destructor of
\* __cache_clear_guard calls on every return of a statement driver.
ClearedCache == [t \in DOMAIN schema |-> 0]

N == Cardinality(DOMAIN required_tables)
Positions == 0..(N - 1)

EvalMsg == "eval error"

(***************************************************************************)
(* The lambdas of dbms::select_rows and dbms::select_rows_aggregate.  stmt  *)
(* holds the statement (tables, exprs: the nodes of the select list, ftype: *)
(* the type of the columns) and the locals counter, val_i, val_f and        *)
(* agg_type; out is what has been written to output_file, line by line.     *)
(* A float x is held as FloatUnit * x, so that the smallest positive float  *)
(* lies between 0 and every other positive float of the model.              *)
(***************************************************************************)
AggregateOps == {"COUNT", "SUM", "AVG", "MIN", "MAX"}

\* expression::is_aggregate.
is_aggregate(n) == nodes[n].op \in AggregateOps

\* The type tag of expression::eval's result: a column has the type of the
\* table's columns, an arithmetic node the type of its left operand.
RECURSIVE ExprType(_, _)
ExprType(ft, n) ==
    IF nodes[n].term = "COLUMN_REF" THEN ft
    ELSE IF nodes[n].term = "LITERAL_INT" THEN "INT"
    ELSE IF nodes[n].term = "LITERAL_STRING" THEN "STRING"
    ELSE ExprType(ft, nodes[n].left)

FloatUnit == 2
FloatOf(v) == FloatUnit * v
\* std::numeric_limits<int>::min().
IntMin == -IntMax - 1
\* std::numeric_limits<float>::max(), above every float of the model.
FloatMax == IntMax
\* std::numeric_limits<float>::min(): the smallest positive normalised float.
FloatMinPositive == 1

\* fprintf "%f": six decimals, which the smallest positive float rounds to 0.
Format_f(x) == IF x = FloatMinPositive THEN 0 ELSE x

Line(k, v) == [kind |-> k, val |-> v]

\* table_manager::dump_record of records[i] for every i, comma-separated.
RECURSIVE DumpRecords(_, _, _)
DumpRecords(i, tl, rl) ==
    IF i \notin DOMAIN tl THEN <<>>
    ELSE data[tl[i]][rl[i]].v \o DumpRecords(i + 1, tl, rl)

\* The lambda of select_rows on the invocation (tl, rl): every expression
\* of the select list in turn; the first that throws ends the row where it
\* is and the lambda returns false.
select_rows_callback(tl, rl) ==
    LET vals == [i \in 1..Len(stmt.exprs) |-> EvalVal(stmt.exprs[i], cache)]
        bad == {i \in 1..Len(stmt.exprs) : vals[i] = Err}
        first == CHOOSE i \in bad : \A j \in bad : i <= j
    IN IF bad # {}
       THEN {[ret |-> FALSE,
              stmt |-> [stmt EXCEPT !.out =
                           IF first = 1 THEN @
                           ELSE Append(@, Line("partial", SubSeq(vals, 1, first - 1)))],
              log |-> Append(log, EvalMsg)]}
       ELSE {[ret |-> TRUE,
              stmt |-> [stmt EXCEPT
                           !.out = Append(@, Line("row",
                               IF stmt.exprs = <<>> THEN DumpRecords(0, tl, rl) ELSE vals)),
                           !.counter = @ + 1],
              log |-> log]}

\* The accumulators after one value v of type ty, for the aggregate op.
Accumulate(s, op, ty, v) ==
    IF ty = "FLOAT"
    THEN [s EXCEPT !.agg_type = ty,
                   !.val_f = IF op \in {"SUM", "AVG"} THEN @ + FloatOf(v)
                             ELSE IF op = "MIN" /\ FloatOf(v) < @ THEN FloatOf(v)
                             ELSE IF op = "MAX" /\ FloatOf(v) > @ THEN FloatOf(v)
                             ELSE @]
    ELSE [s EXCEPT !.agg_type = ty,
                   !.val_i = IF op \in {"SUM", "AVG"} THEN @ + v
                             ELSE IF op = "MIN" /\ v < @ THEN v
                             ELSE IF op = "MAX" /\ v > @ THEN v
                             ELSE @]

\* A lambda with ++counter inside the branch of the inner expression.
select_rows_aggregate_callback_CountInside ==
    LET e == nodes[stmt.exprs[1]] IN
    IF e.op # "COUNT"
    THEN LET v == EvalVal(e.left, cache)
             ty == ExprType(stmt.ftype, e.left)
         IN IF v = Err
            THEN {[ret |-> FALSE, stmt |-> stmt, log |-> Append(log, EvalMsg)]}
            ELSE {[ret |-> TRUE, log |-> log,
                   stmt |-> [Accumulate(stmt, e.op, ty, u) EXCEPT !.counter = @ + 1]] :
                     u \in IF ty = "STRING" THEN 0..MaxVal ELSE {v}}
    ELSE {[ret |-> TRUE, stmt |-> stmt, log |-> log]}

\* The lambda of select_rows_aggregate: the inner expression is evaluated
\* unless the aggregate is COUNT, the accumulator of the value's type is
\* updated (val_i for every type but float: of a string, ret.val_i is
\* whatever the union holds), and the row is counted.
select_rows_aggregate_callback ==
    LET e == nodes[stmt.exprs[1]] IN
    IF e.op # "COUNT"
    THEN LET v == EvalVal(e.left, cache)
             ty == ExprType(stmt.ftype, e.left)
         IN IF v = Err
            THEN {[ret |-> FALSE, stmt |-> stmt, log |-> Append(log, EvalMsg)]}
            ELSE {[ret |-> TRUE, log |-> log,
                   stmt |-> [Accumulate(stmt, e.op, ty, u) EXCEPT !.counter = @ + 1]] :
                     u \in IF ty = "STRING" THEN 0..MaxVal ELSE {v}}
    ELSE {[ret |-> TRUE, stmt |-> [stmt EXCEPT !.counter = @ + 1], log |-> log]}

\* The consumer handed to iterate, as the outcomes of one call on the
\* invocation (tl, rl): what it returns, and stmt and log after it.  The
\* consumer of a bare iterate call is left open: it may return either value
\* and touches nothing.
Consumer(tl, rl) ==
    IF stmt.kind = "select"
    THEN IF stmt.aggregate THEN select_rows_aggregate_callback
         ELSE select_rows_callback(tl, rl)
    ELSE {[ret |-> r, stmt |-> stmt, log |-> log] : r \in BOOLEAN}

\* Where iterate returns to.
IterateReturn == IF stmt.kind = "select" THEN "select_finish" ELSE "done"

\* One invocation callback(tables, records, rowids), with the row cache as
\* it is at the call.
\* An invocation that hands over required_tables whatever order the
\* records are in.
Invocation_Unswapped(tl, rl, il) ==
    [tables |-> required_tables, records |-> rl, rids |-> il, bound |-> cache]
Invocation(tl, rl, il) == [tables |-> tl, records |-> rl, rids |-> il, bound |-> cache]

(***************************************************************************)
(* dbms::iterate: dispatch on the number of tables.                        *)
(***************************************************************************)
iterate ==
    /\ pc = "iterate"
    /\ pc' = IF N = 1 THEN "one_loop" ELSE IF N = 2 THEN "two_begin" ELSE "many_begin"
    /\ bit' = IF N = 1 THEN [pos |-> 1, rid |-> 0] ELSE bit
    /\ UNCHANGED <<config, data, cache, table_list, record_list, rid_list,
                   calls, stopped, log, nread, raised, two, plan, frames, now, stmt>>

(***************************************************************************)
(* dbms::iterate_one_table over table required_tables[0].                  *)
(***************************************************************************)
\* Where iterate_one_table returns to.
OneReturn ==
    IF stmt.kind = "delete" THEN "delete_remove"
    ELSE IF stmt.kind = "update" THEN "update_summary"
    ELSE IterateReturn

\* A catch clause that writes the message and goes on with the next record.
OneCatch_Continue ==
    /\ log' = Append(log, EvalMsg)
    /\ pc' = "one_loop"
    /\ bit' = [pos |-> bit.pos + 1, rid |-> Rid(required_tables[0], bit.pos)]

\* The catch clause of iterate_one_table: the message is written and the
\* function returns.
OneCatch ==
    /\ log' = Append(log, EvalMsg)
    /\ pc' = OneReturn
    /\ bit' = [bit EXCEPT !.rid = Rid(required_tables[0], bit.pos)]

\* A loop without `if(!result) continue;`.
iterate_one_table_fetch_NoFilter ==
    /\ pc = "one_loop"
    /\ LET t == required_tables[0] IN
       IF bit.pos > RowCount(t)
       THEN /\ pc' = OneReturn
            /\ UNCHANGED <<bit, cache, nread, raised, log>>
       ELSE LET c2 == cache_record(cache, t, bit.pos)
                r == IF cond = 0 THEN 1 ELSE EvalBool(cond, c2)
            IN /\ cache' = c2
               /\ nread' = nread + 1
               /\ raised' = IF r = Err THEN raised + 1 ELSE raised
               /\ IF r = Err
                  THEN OneCatch
                  ELSE /\ bit' = [bit EXCEPT !.rid = Rid(t, bit.pos)]
                       /\ pc' = "one_call"
                       /\ UNCHANGED log
    /\ UNCHANGED <<config, data, table_list, record_list, rid_list, calls,
                   stopped, two, plan, frames, now, stmt>>

\* One turn of the for loop up to the consumer call: open the record, read
\* its rowid, cache it and evaluate the predicate.
iterate_one_table_fetch ==
    /\ pc = "one_loop"
    /\ LET t == required_tables[0] IN
       IF bit.pos > RowCount(t)
       THEN /\ pc' = OneReturn
            /\ UNCHANGED <<bit, cache, nread, raised, log>>
       ELSE LET c2 == cache_record(cache, t, bit.pos)
                r == IF cond = 0 THEN 1 ELSE EvalBool(cond, c2)
            IN /\ cache' = c2
               /\ nread' = nread + 1
               /\ raised' = IF r = Err THEN raised + 1 ELSE raised
               /\ IF r = Err
                  THEN OneCatch
                  ELSE IF r = 0
                  THEN /\ bit' = [pos |-> bit.pos + 1, rid |-> Rid(t, bit.pos)]
                       /\ UNCHANGED <<pc, log>>
                  ELSE /\ bit' = [bit EXCEPT !.rid = Rid(t, bit.pos)]
                       /\ pc' = "one_call"
                       /\ UNCHANGED log
    /\ UNCHANGED <<config, data, table_list, record_list, rid_list, calls,
                   stopped, two, plan, frames, now, stmt>>

\* The consumer call of iterate_one_table, with the lambda of iterate.
iterate_one_table_call ==
    /\ pc = "one_call"
    /\ stmt.kind \notin {"delete", "update"}
    /\ LET rl == [record_list EXCEPT ![0] = bit.pos]
           il == [rid_list EXCEPT ![0] = bit.rid]
       IN /\ record_list' = rl
          /\ rid_list' = il
          /\ table_list' = required_tables
          /\ calls' = Append(calls, Invocation(required_tables, rl, il))
    /\ \E o \in Consumer(required_tables, [record_list EXCEPT ![0] = bit.pos]) :
          /\ stmt' = o.stmt
          /\ log' = o.log
          /\ stopped' = (stopped \/ ~o.ret)
          /\ IF o.ret
             THEN /\ bit' = [bit EXCEPT !.pos = @ + 1]
                  /\ pc' = "one_loop"
             ELSE /\ pc' = OneReturn
                  /\ UNCHANGED bit
    /\ UNCHANGED <<config, data, cache, nread, raised, two, plan, frames, now>>

(***************************************************************************)
(* dbms::iterate_two_tables_with_joint_cond_equal.                         *)
(***************************************************************************)
get_join_cond(c) ==
    IF c = 0 THEN 0
    ELSE IF /\ nodes[nodes[c].left].term = "COLUMN_REF"
            /\ nodes[nodes[c].right].term = "COLUMN_REF"
         THEN c ELSE 0

\* The part before the loops: the checks that decline (accept = FALSE) and
\* the choice of the scanned table tb1 and the probed table tb2.
TwoSetup ==
    LET join_cond == get_join_cond(cond)
        l == nodes[nodes[join_cond].left]
        r == nodes[nodes[join_cond].right]
        swap1 == l.tab # required_tables[0]
        tb1 == IF swap1 THEN required_tables[1] ELSE required_tables[0]
        tb2 == IF swap1 THEN required_tables[0] ELSE required_tables[1]
        cid1 == lookup_column(tb1, l.col)
        cid2 == lookup_column(tb2, r.col)
        idx1 == get_index(tb1, cid1)
        idx2 == get_index(tb2, cid2)
        declined == [accept |-> FALSE, noindex |-> FALSE, tb1 |-> 0, tb2 |-> 0,
                     cid1 |-> 0, cid2 |-> 0]
    IN IF join_cond = 0 THEN declined
       ELSE IF nodes[join_cond].op # "EQ" THEN declined
       ELSE IF cid1 < 0 \/ cid2 < 0 THEN declined
       ELSE IF ~idx1 /\ ~idx2 THEN [declined EXCEPT !.noindex = TRUE]
       ELSE IF ~idx2
            THEN [accept |-> TRUE, noindex |-> FALSE, tb1 |-> tb2, tb2 |-> tb1,
                  cid1 |-> cid2, cid2 |-> cid1]
            ELSE [accept |-> TRUE, noindex |-> FALSE, tb1 |-> tb1, tb2 |-> tb2,
                  cid1 |-> cid1, cid2 |-> cid2]

TwoIdle == [tb1 |-> 0, tb2 |-> 0, cid1 |-> 0, cid2 |-> 0, tb1_it |-> 0,
            tb1_rid |-> 0, tb2_seq |-> <<>>, tb2_it |-> 0, tb2_rid |-> 0]

iterate_two_tables_begin ==
    /\ pc = "two_begin"
    /\ LET s == TwoSetup IN
       IF s.accept
       THEN /\ two' = [TwoIdle EXCEPT !.tb1 = s.tb1, !.tb2 = s.tb2,
                                      !.cid1 = s.cid1, !.cid2 = s.cid2,
                                      !.tb1_it = 1]
            /\ table_list' = [i \in 0..1 |-> IF i = 0 THEN s.tb1 ELSE s.tb2]
            /\ pc' = "two_outer"
            /\ UNCHANGED log
       ELSE /\ log' = IF s.noindex THEN Append(log, "[Info] No index") ELSE log
            /\ pc' = "many_begin"
            /\ UNCHANGED <<two, table_list>>
    /\ UNCHANGED <<config, data, cache, record_list, rid_list, calls, stopped,
                   nread, raised, plan, frames, now, bit, stmt>>

\* One turn of the loop over tb1: open and cache the record, read the key
\* and position the index of tb2 at its lower bound.
iterate_two_tables_outer ==
    /\ pc = "two_outer"
    /\ IF two.tb1_it > RowCount(two.tb1)
       THEN /\ pc' = IterateReturn
            /\ log' = Append(log, "[Info] Join two tables using index.")
            /\ UNCHANGED <<two, cache, nread, raised>>
       ELSE LET tb1_col == Col(two.tb1, two.tb1_it, two.cid1) IN
            /\ cache' = cache_record(cache, two.tb1, two.tb1_it)
            /\ nread' = nread + 1
            /\ UNCHANGED raised
            /\ two' = [two EXCEPT !.tb1_rid = Rid(two.tb1, two.tb1_it),
                                  !.tb2_seq = IndexLowerBound(two.tb2, two.cid2, tb1_col),
                                  !.tb2_it = 1]
            /\ pc' = "two_inner"
            /\ UNCHANGED log
    /\ UNCHANGED <<config, data, table_list, record_list, rid_list, calls,
                   stopped, plan, frames, now, bit, stmt>>

\* One turn of the loop over the index of tb2, up to the consumer call.
iterate_two_tables_inner ==
    /\ pc = "two_inner"
    /\ IF two.tb2_it > Len(two.tb2_seq)
       THEN /\ two' = [two EXCEPT !.tb1_it = @ + 1]
            /\ pc' = "two_outer"
            /\ UNCHANGED <<cache, nread, raised, log, record_list, rid_list>>
       ELSE LET h == two.tb2_seq[two.tb2_it]
                c2 == cache_record(cache, two.tb2, h)
                result == EvalBool(cond, c2)
            IN /\ cache' = c2
               /\ nread' = nread + 1
               /\ raised' = IF result = Err THEN raised + 1 ELSE raised
               /\ IF result = Err
                  THEN /\ log' = Append(Append(log, EvalMsg),
                                        "[Info] Join two tables using index.")
                       /\ pc' = IterateReturn
                       /\ UNCHANGED <<two, record_list, rid_list>>
                  ELSE IF result = 0
                  THEN /\ two' = [two EXCEPT !.tb1_it = @ + 1]
                       /\ pc' = "two_outer"
                       /\ UNCHANGED <<log, record_list, rid_list>>
                  ELSE /\ two' = [two EXCEPT !.tb2_rid = Rid(two.tb2, h)]
                       /\ record_list' = [i \in 0..1 |-> IF i = 0 THEN two.tb1_it ELSE h]
                       /\ rid_list' = [i \in 0..1 |-> IF i = 0 THEN two.tb1_rid
                                                               ELSE Rid(two.tb2, h)]
                       /\ pc' = "two_call"
                       /\ UNCHANGED log
    /\ UNCHANGED <<config, data, table_list, calls, stopped, plan, frames,
                   now, bit, stmt>>

\* callback(table_list, record_list, rid_list); a false result leaves the
\* loop over the index only.
iterate_two_tables_call ==
    /\ pc = "two_call"
    /\ calls' = Append(calls, Invocation(table_list, record_list, rid_list))
    /\ \E o \in Consumer(table_list, record_list) :
          /\ stmt' = o.stmt
          /\ log' = o.log
          /\ stopped' = (stopped \/ ~o.ret)
          /\ IF o.ret
             THEN /\ two' = [two EXCEPT !.tb2_it = @ + 1]
                  /\ pc' = "two_inner"
             ELSE /\ two' = [two EXCEPT !.tb1_it = @ + 1]
                  /\ pc' = "two_outer"
    /\ UNCHANGED <<config, data, cache, table_list, record_list, rid_list,
                   nread, raised, plan, frames, now, bit>>

(***************************************************************************)
(* dbms::iterate_many_tables: the join graph.                              *)
(***************************************************************************)
\* The conjuncts of a non-null predicate, left to right.
RECURSIVE extract_and_cond(_)
extract_and_cond(c) ==
    IF nodes[c].op = "AND"
    THEN extract_and_cond(nodes[c].left) \o extract_and_cond(nodes[c].right)
    ELSE <<c>>

\* The lambda lookup_table: the first position holding the named table.
lookup_table(name) ==
    IF \E i \in Positions : required_tables[i] = name
    THEN CHOOSE i \in Positions :
            /\ required_tables[i] = name
            /\ \A j \in Positions : required_tables[j] = name => i <= j
    ELSE -1

ZeroMatrix == [i \in Positions |-> [j \in Positions |-> 0]]

\* A turn of the loop that points each edge into the table that has the
\* index.
GraphStep_IntoIndexed(G, c) ==
    LET nd == nodes[c]
        l == nodes[nd.left]
        r == nodes[nd.right]
        tid1 == lookup_table(l.tab)
        tid2 == lookup_table(r.tab)
        tb1 == required_tables[tid1]
        tb2 == required_tables[tid2]
        cid1 == lookup_column(tb1, l.col)
        cid2 == lookup_column(tb2, r.col)
        idx1 == get_index(tb1, cid1)
        idx2 == get_index(tb2, cid2)
        E1 == IF idx2 THEN [G.E EXCEPT ![tid1][tid2] = 1] ELSE G.E
        J1 == IF idx2 THEN [G.J EXCEPT ![tid1][tid2] = c] ELSE G.J
        E2 == IF idx1 THEN [E1 EXCEPT ![tid2][tid1] = 1] ELSE E1
        J2 == IF idx1 THEN [J1 EXCEPT ![tid2][tid1] = c] ELSE J1
    IN IF ~(nd.op = "EQ" /\ l.term = "COLUMN_REF" /\ r.term = "COLUMN_REF") THEN G
       ELSE IF tid1 = -1 \/ tid2 = -1 THEN [G EXCEPT !.err = "[Error] Table not found!"]
       ELSE IF cid1 = -1 \/ cid2 = -1 THEN [G EXCEPT !.err = "[Error] Column not found!"]
       ELSE [E |-> E2, J |-> J2, err |-> ""]

\* One turn of the loop over the conjuncts, on G = [E, J, err].
GraphStep(G, c) ==
    LET nd == nodes[c]
        l == nodes[nd.left]
        r == nodes[nd.right]
        tid1 == lookup_table(l.tab)
        tid2 == lookup_table(r.tab)
        tb1 == required_tables[tid1]
        tb2 == required_tables[tid2]
        cid1 == lookup_column(tb1, l.col)
        cid2 == lookup_column(tb2, r.col)
        idx1 == get_index(tb1, cid1)
        idx2 == get_index(tb2, cid2)
        E1 == IF idx2 THEN [G.E EXCEPT ![tid2][tid1] = 1] ELSE G.E
        J1 == IF idx2 THEN [G.J EXCEPT ![tid2][tid1] = c] ELSE G.J
        E2 == IF idx1 THEN [E1 EXCEPT ![tid1][tid2] = 1] ELSE E1
        J2 == IF idx1 THEN [J1 EXCEPT ![tid1][tid2] = c] ELSE J1
    IN IF ~(nd.op = "EQ" /\ l.term = "COLUMN_REF" /\ r.term = "COLUMN_REF") THEN G
       ELSE IF tid1 = -1 \/ tid2 = -1 THEN [G EXCEPT !.err = "[Error] Table not found!"]
       ELSE IF cid1 = -1 \/ cid2 = -1 THEN [G EXCEPT !.err = "[Error] Column not found!"]
       ELSE [E |-> E2, J |-> J2, err |-> ""]

RECURSIVE GraphLoop(_, _, _)
GraphLoop(G, and_cond, k) ==
    IF k > Len(and_cond) \/ G.err # "" THEN G
    ELSE GraphLoop(GraphStep(G, and_cond[k]), and_cond, k + 1)

BuildGraph(and_cond) ==
    GraphLoop([E |-> ZeroMatrix, J |-> ZeroMatrix, err |-> ""], and_cond, 1)

(***************************************************************************)
(* dbms::find_longest_path and the order selection.                        *)
(***************************************************************************)
\* st = [mark, path, max_depth, ret]: the arrays and the reference
\* parameter the function writes, and its result.
RECURSIVE find_longest_path(_, _, _, _, _), find_longest_path_loop(_, _, _, _, _, _)
find_longest_path(nw, depth, st, E, excepted_len) ==
    LET st1 == [mark |-> [st.mark EXCEPT ![nw] = 1],
                path |-> [st.path EXCEPT ![depth] = nw],
                max_depth |-> IF depth > st.max_depth THEN depth ELSE st.max_depth,
                ret |-> FALSE]
    IN IF depth = excepted_len THEN [st1 EXCEPT !.ret = TRUE]
       ELSE LET r == find_longest_path_loop(0, nw, depth, st1, E, excepted_len)
            IN IF r.ret THEN r ELSE [r EXCEPT !.mark[nw] = 0]
find_longest_path_loop(i, nw, depth, st, E, excepted_len) ==
    IF i = Cardinality(DOMAIN E) THEN st
    ELSE IF E[nw][i] = 0 \/ st.mark[i] # 0
         THEN find_longest_path_loop(i + 1, nw, depth, st, E, excepted_len)
         ELSE LET r == find_longest_path(i, depth + 1, st, E, excepted_len)
              IN IF r.ret THEN r
                 ELSE find_longest_path_loop(i + 1, nw, depth, r, E, excepted_len)

ZeroMark(E) == [i \in DOMAIN E |-> 0]

\* A loop over the start vertices that takes a start on m >= max_depth.
RECURSIVE LongestLoop_LastStart(_, _, _)
LongestLoop_LastStart(i, acc, E) ==
    IF i = Cardinality(DOMAIN E) THEN acc
    ELSE LET r == find_longest_path(i, 0,
                      [mark |-> ZeroMark(E), path |-> acc.path, max_depth |-> 0,
                       ret |-> FALSE], E, IntMax)
         IN LongestLoop_LastStart(i + 1,
                [max_depth |-> IF r.max_depth >= acc.max_depth THEN r.max_depth
                               ELSE acc.max_depth,
                 start |-> IF r.max_depth >= acc.max_depth THEN i ELSE acc.start,
                 path |-> r.path], E)

\* The loop over the start vertices: acc = [max_depth, start, path].
RECURSIVE LongestLoop(_, _, _)
LongestLoop(i, acc, E) ==
    IF i = Cardinality(DOMAIN E) THEN acc
    ELSE LET r == find_longest_path(i, 0,
                      [mark |-> ZeroMark(E), path |-> acc.path, max_depth |-> 0,
                       ret |-> FALSE], E, IntMax)
         IN LongestLoop(i + 1,
                [max_depth |-> IF r.max_depth > acc.max_depth THEN r.max_depth
                               ELSE acc.max_depth,
                 start |-> IF r.max_depth > acc.max_depth THEN i ELSE acc.start,
                 path |-> r.path], E)

\* path is allocated uninitialised; -1 marks a slot never written.
FindLongest(E) ==
    LongestLoop(0, [max_depth |-> 0, start |-> 0, path |-> [i \in DOMAIN E |-> -1]], E)

\* An appending loop that writes path[cur++] instead of path[++cur].
RECURSIVE AppendLoop_PostIncrement(_, _, _, _)
AppendLoop_PostIncrement(i, cur, path, mark) ==
    IF i = Cardinality(DOMAIN mark) THEN path
    ELSE IF mark[i] = 0
         THEN AppendLoop_PostIncrement(i + 1, cur + 1, [path EXCEPT ![cur] = i], mark)
         ELSE AppendLoop_PostIncrement(i + 1, cur, path, mark)

\* The appending loop: the unmarked vertices in ascending order.
RECURSIVE AppendLoop(_, _, _, _)
AppendLoop(i, cur, path, mark) ==
    IF i = Cardinality(DOMAIN mark) THEN path
    ELSE IF mark[i] = 0
         THEN AppendLoop(i + 1, cur + 1, [path EXCEPT ![cur + 1] = i], mark)
         ELSE AppendLoop(i + 1, cur, path, mark)

\* The rerun with the exact depth (uninit: the value the uninitialised
\* local _ happens to hold) and the iteration sequence built from it.
GenerateSequence(E, max_depth, start, path0, uninit) ==
    LET r == find_longest_path(start, 0,
                 [mark |-> ZeroMark(E), path |-> path0, max_depth |-> uninit,
                  ret |-> FALSE], E, max_depth)
        mark == [i \in DOMAIN E |->
                    IF \E k \in 0..max_depth : r.path[k] = i THEN 1 ELSE 0]
    IN [found |-> r.ret, path |-> AppendLoop(0, max_depth, r.path, mark)]

(***************************************************************************)
(* dbms::iterate_many_tables, step by step.                                *)
(***************************************************************************)
NullIndex == [tab |-> 0, col |-> 0]
PlanIdle == [E |-> <<>>, J |-> <<>>, max_depth |-> 0, start |-> 0, path |-> <<>>,
             index_ref |-> <<>>, index_cid |-> <<>>]

\* What iterate prints once iterate_many_tables has returned.
ManyInfo == IF N = 2 THEN "[Info] Join two tables by enumerating."
            ELSE "[Info] Join many tables by enumerating."

\* Iteration variables that take the left reference for path[i]'s always.
IterVar_LeftFirst(J, path, i) ==
    LET a == required_tables[path[i]]
        b == required_tables[path[i + 1]]
        join_node == nodes[J[path[i]][path[i + 1]]]
        l == nodes[join_node.left]
        r == nodes[join_node.right]
        c == lookup_column(a, l.col)
    IN [cid |-> lookup_column(b, r.col),
        ref |-> IF get_index(a, c) THEN [tab |-> a, col |-> c] ELSE NullIndex]

\* index_ref[i] and index_cid[i] of one chain position of path, from J.
IterVar(J, path, i) ==
    LET a == required_tables[path[i]]
        b == required_tables[path[i + 1]]
        join_node == nodes[J[path[i]][path[i + 1]]]
        l == nodes[join_node.left]
        r == nodes[join_node.right]
        mine == IF l.tab = a THEN l.col ELSE r.col
        other == IF l.tab = a THEN r.col ELSE l.col
        c == lookup_column(a, mine)
    IN [cid |-> lookup_column(b, other),
        ref |-> IF get_index(a, c) THEN [tab |-> a, col |-> c] ELSE NullIndex]

\* Order selection and iteration variables for the graph G = [E, J].  ok
\* is FALSE when one of the two assertions fails.
PlanFor(G, uninit) ==
    LET m == FindLongest(G.E)
        g == GenerateSequence(G.E, m.max_depth, m.start, m.path, uninit)
        ref == [i \in Positions |->
                   IF i < m.max_depth THEN IterVar(G.J, g.path, i).ref ELSE NullIndex]
        cid == [i \in Positions |->
                   IF i < m.max_depth THEN IterVar(G.J, g.path, i).cid ELSE -1]
    IN IF ~g.found
       THEN [ok |-> FALSE, plan |-> PlanIdle]
       ELSE [ok |-> \A i \in Positions : i < m.max_depth => ref[i] # NullIndex,
             plan |-> [E |-> G.E, J |-> G.J, max_depth |-> m.max_depth,
                       start |-> m.start, path |-> g.path,
                       index_ref |-> ref, index_cid |-> cid]]

\* iterate_many_tables up to the first call of iterate_many_tables_impl
\* (now = len - 1).  extract_and_cond reads cond->op of a null predicate:
\* the read faults, or it yields a value that is neither AND nor EQ and no
\* edge is set.
iterate_many_tables ==
    /\ pc = "many_begin"
    /\ \E outcome \in (IF cond = 0 THEN {"fault", "garbage"} ELSE {"none"}),
          uninit \in {0, IntMax} :
          LET G == IF cond = 0 THEN [E |-> ZeroMatrix, J |-> ZeroMatrix, err |-> ""]
                   ELSE BuildGraph(extract_and_cond(cond))
              P == PlanFor(G, uninit)
          IN IF cond = 0 /\ outcome = "fault"
             THEN /\ pc' = "crashed"
                  /\ UNCHANGED <<plan, log, now, table_list>>
             ELSE IF G.err # ""
             THEN /\ log' = Append(Append(log, G.err), ManyInfo)
                  /\ pc' = IterateReturn
                  /\ UNCHANGED <<plan, now, table_list>>
             ELSE IF ~P.ok
             THEN /\ pc' = "assert_failed"
                  /\ UNCHANGED <<plan, log, now, table_list>>
             ELSE /\ plan' = P.plan
                  /\ now' = N - 1
                  /\ table_list' = required_tables
                  /\ pc' = "impl_enter"
                  /\ UNCHANGED log
    /\ UNCHANGED <<config, data, cache, record_list, rid_list, calls, stopped,
                   nread, raised, two, frames, bit, stmt>>

(***************************************************************************)
(* dbms::iterate_many_tables_impl: the frames of the recursion.            *)
(***************************************************************************)
\* A return to level lv + 1 that does not advance its iterator.
ImplReturnTrue_NoAdvance(lv) ==
    IF lv = N - 1
    THEN /\ pc' = "many_finish"
         /\ UNCHANGED <<now, frames>>
    ELSE /\ pc' = "impl_loop"
         /\ now' = lv + 1
         /\ UNCHANGED frames

\* The frame of level now returns true: the call returns at now = len - 1,
\* else the loop of level now + 1 goes on with it.next().
ImplReturnTrue(lv) ==
    IF lv = N - 1
    THEN /\ pc' = "many_finish"
         /\ UNCHANGED <<now, frames>>
    ELSE /\ pc' = "impl_loop"
         /\ now' = lv + 1
         /\ frames' = [frames EXCEPT ![lv + 1].it = @ + 1]

\* A frame of now < 0 that evaluates the first conjunct only.
LeafResult_FirstConjunct ==
    IF cond = 0 THEN 1 ELSE EvalBool(extract_and_cond(cond)[1], cache)

\* The predicate as the frame of now < 0 evaluates it on the cached rows.
LeafResult == IF cond = 0 THEN 1 ELSE EvalBool(cond, cache)

\* Entry of the frame of level now: the predicate at now < 0, else the
\* iterator of the level (a scan, or the index from the lower bound of the
\* key cached by level now + 1).
iterate_many_tables_impl_enter ==
    /\ pc = "impl_enter"
    /\ IF now < 0
       THEN LET result == LeafResult IN
            /\ raised' = IF result = Err THEN raised + 1 ELSE raised
            /\ IF result = Err
               THEN /\ log' = Append(log, EvalMsg)
                    /\ pc' = "many_finish"
                    /\ UNCHANGED <<now, frames>>
               ELSE IF result = 0
               THEN /\ ImplReturnTrue(-1)
                    /\ UNCHANGED log
               ELSE /\ pc' = "impl_call"
                    /\ UNCHANGED <<log, now, frames>>
       ELSE LET t == required_tables[plan.path[now]]
                ref == plan.index_ref[now]
                seq == IF ref = NullIndex THEN ScanOrder(t)
                       ELSE LET o == required_tables[plan.path[now + 1]]
                                tb_col == Col(o, cache[o], plan.index_cid[now])
                            IN IndexLowerBound(ref.tab, ref.col, tb_col)
            IN /\ frames' = [frames EXCEPT ![now] = [seq |-> seq, it |-> 1]]
               /\ pc' = "impl_loop"
               /\ UNCHANGED <<log, now, raised>>
    /\ UNCHANGED <<config, data, cache, table_list, record_list, rid_list,
                   calls, stopped, nread, two, plan, bit, stmt>>

\* A loop of level now that runs its iterator from the last entry to the
\* first.
iterate_many_tables_impl_loop_Backwards ==
    /\ pc = "impl_loop"
    /\ LET f == frames[now]
           p == plan.path[now]
           t == required_tables[p]
       IN IF f.it > Len(f.seq)
          THEN /\ ImplReturnTrue(now)
               /\ UNCHANGED <<cache, nread, raised, log, record_list, rid_list>>
          ELSE LET h == f.seq[Len(f.seq) + 1 - f.it]
                   c2 == cache_record(cache, t, h)
                   join_ret ==
                       IF plan.index_ref[now] = NullIndex THEN 1
                       ELSE EvalBool(plan.J[p][plan.path[now + 1]], c2)
               IN /\ cache' = c2
                  /\ nread' = nread + 1
                  /\ raised' = IF join_ret = Err THEN raised + 1 ELSE raised
                  /\ IF join_ret = Err
                     THEN /\ log' = Append(log, EvalMsg)
                          /\ pc' = "many_finish"
                          /\ UNCHANGED <<now, frames, record_list, rid_list>>
                     ELSE IF join_ret = 0
                     THEN /\ ImplReturnTrue(now)
                          /\ UNCHANGED <<log, record_list, rid_list>>
                     ELSE /\ rid_list' = [rid_list EXCEPT ![p] = Rid(t, h)]
                          /\ record_list' = [record_list EXCEPT ![p] = h]
                          /\ now' = now - 1
                          /\ pc' = "impl_enter"
                          /\ UNCHANGED <<log, frames>>
    /\ UNCHANGED <<config, data, table_list, calls, stopped, two, plan,
                   bit, stmt>>

\* One turn of the loop of level now, up to the recursive call.
iterate_many_tables_impl_loop ==
    /\ pc = "impl_loop"
    /\ LET f == frames[now]
           p == plan.path[now]
           t == required_tables[p]
       IN IF f.it > Len(f.seq)
          THEN /\ ImplReturnTrue(now)
               /\ UNCHANGED <<cache, nread, raised, log, record_list, rid_list>>
          ELSE LET h == f.seq[f.it]
                   c2 == cache_record(cache, t, h)
                   join_ret ==
                       IF plan.index_ref[now] = NullIndex THEN 1
                       ELSE EvalBool(plan.J[p][plan.path[now + 1]], c2)
               IN /\ cache' = c2
                  /\ nread' = nread + 1
                  /\ raised' = IF join_ret = Err THEN raised + 1 ELSE raised
                  /\ IF join_ret = Err
                     THEN /\ log' = Append(log, EvalMsg)
                          /\ pc' = "many_finish"
                          /\ UNCHANGED <<now, frames, record_list, rid_list>>
                     ELSE IF join_ret = 0
                     THEN /\ ImplReturnTrue(now)
                          /\ UNCHANGED <<log, record_list, rid_list>>
                     ELSE /\ rid_list' = [rid_list EXCEPT ![p] = Rid(t, h)]
                          /\ record_list' = [record_list EXCEPT ![p] = h]
                          /\ now' = now - 1
                          /\ pc' = "impl_enter"
                          /\ UNCHANGED <<log, frames>>
    /\ UNCHANGED <<config, data, table_list, calls, stopped, two, plan,
                   bit, stmt>>

\* callback(table_list, record_list, rid_list) in the frame of now < 0; a
\* false result is returned through every frame.
iterate_many_tables_impl_call ==
    /\ pc = "impl_call"
    /\ calls' = Append(calls, Invocation(table_list, record_list, rid_list))
    /\ \E o \in Consumer(table_list, record_list) :
          /\ stmt' = o.stmt
          /\ log' = o.log
          /\ stopped' = (stopped \/ ~o.ret)
          /\ IF o.ret
             THEN ImplReturnTrue(-1)
             ELSE /\ pc' = "many_finish"
                  /\ UNCHANGED <<now, frames>>
    /\ UNCHANGED <<config, data, cache, table_list, record_list, rid_list,
                   nread, raised, two, plan, bit>>

\* The debug lines of iterate_many_tables and the line of iterate.
iterate_many_tables_finish ==
    /\ pc = "many_finish"
    /\ log' = Append(Append(log, "[Info] Iteration order"), ManyInfo)
    /\ pc' = IterateReturn
    /\ UNCHANGED <<config, data, cache, table_list, record_list, rid_list,
                   calls, stopped, nread, raised, two, plan, frames, now, bit, stmt>>

(***************************************************************************)
(* Initial states: a database, a statement and nothing run yet.            *)
(***************************************************************************)
\* The databases over the schema sch: cnt rows per table, the values of
\* their columns drawn from 0..MaxVal, the rowid of row p of table t being
\* 10 * t + p.
RECURSIVE SumOver(_, _)
SumOver(f, ts) ==
    IF ts = {} THEN 0
    ELSE LET t == CHOOSE x \in ts : TRUE IN f[t] + SumOver(f, ts \ {t})

RowCounts(sch) ==
    {cnt \in [DOMAIN sch -> 0..MaxRows] : SumOver(cnt, DOMAIN sch) <= MaxTotalRows}

Slots(sch, cnt) ==
    {s \in (DOMAIN sch) \X (1..MaxRows) \X (1..2) : s[2] <= cnt[s[1]] /\ s[3] <= sch[s[1]]}

Database(sch, cnt, f) ==
    [t \in DOMAIN sch |->
        [p \in 1..cnt[t] |->
            [rid |-> 10 * t + p, v |-> [c \in 1..sch[t] |-> f[<<t, p, c>>]]]]]

Databases(sch) ==
    UNION {{Database(sch, cnt, f) : f \in [Slots(sch, cnt) -> 0..MaxVal]} :
              cnt \in RowCounts(sch)}

\* The name of a table that is not in the table list.
Unknown == 9

\* The predicates iterate is run on, by number of tables.  Without a
\* predicate no index is ever looked up, and iterate_one_table looks none up.
Preds1 ==
    {NoPred, Atom("GT", Ref(1, 1), Lit(0)), DivAtom(Ref(1, 1)),
     Atom("EQ", Ref(1, 1), Ref(1, 2)), BadAtom("EQ", Ref(1, 1), Lit(0)),
     AndOf(Atom("LT", Ref(1, 2), Lit(1)), DivAtom(Ref(1, 1)))}
Refs2 == {Ref(1, 1), Ref(2, 1), Ref(2, 2), Ref(Unknown, 1)}
Preds2 ==
    {Atom("LT", Ref(1, 1), Ref(2, 1)), BadAtom("EQ", Ref(1, 1), Ref(2, 1)),
     AndOf(Atom("EQ", Ref(1, 1), Ref(2, 1)), Atom("GT", Ref(1, 1), Lit(0))),
     AndOf(Atom("EQ", Ref(2, 1), Ref(1, 1)), DivAtom(Ref(1, 1)))}
    \cup {Atom("EQ", l, r) : l, r \in Refs2}
E12 == Atom("EQ", Ref(1, 1), Ref(2, 1))
E23 == Atom("EQ", Ref(2, 1), Ref(3, 1))
E31 == Atom("EQ", Ref(3, 1), Ref(1, 1))
Preds3 ==
    {AndOf(E12, E23), AndOf(E31, E23), AndOf(AndOf(E12, E23), E31),
     AndOf(AndOf(E12, E23), DivAtom(Ref(3, 1))),
     AndOf(E12, Atom("LT", Ref(2, 1), Ref(3, 1))),
     AndOf(BadAtom("EQ", Ref(1, 1), Ref(2, 1)), E23),
     AndOf(Atom("EQ", Ref(1, 1), Ref(1, 1)), E23)}

Idle(at) ==
    /\ pc = at
    /\ cache = [t \in DOMAIN schema |-> 0]
    /\ table_list = [i \in Positions |-> 0]
    /\ record_list = [i \in Positions |-> 0]
    /\ rid_list = [i \in Positions |-> 0]
    /\ calls = <<>>
    /\ stopped = FALSE
    /\ log = <<>>
    /\ nread = 0
    /\ raised = 0
    /\ two = TwoIdle
    /\ plan = PlanIdle
    /\ frames = [i \in Positions |-> [seq |-> <<>>, it |-> 0]]
    /\ now = 0
    /\ bit = [pos |-> 0, rid |-> 0]

AllIndexSets(sch) == SUBSET {<<t, c>> \in (DOMAIN sch) \X (1..2) : c <= sch[t]}

InitIterate(sch, preds, idxsets) ==
    /\ schema = sch
    /\ required_tables = [i \in 0..(Len(sch) - 1) |-> i + 1]
    /\ data \in Databases(sch)
    /\ idx \in idxsets
    /\ \E p \in preds : nodes = p.nodes /\ cond = p.root
    /\ stmt = [kind |-> "iterate"]
    /\ Idle("iterate")

Init ==
    \/ InitIterate(<<2>>, Preds1, {{}})
    \/ InitIterate(<<1, 1>>, {NoPred}, {{}})
    \/ InitIterate(<<1, 1>>, Preds2, AllIndexSets(<<1, 1>>))
    \/ InitIterate(<<2, 1>>, {Atom("EQ", Ref(1, 2), Ref(1, 1))},
                   {{<<2, 1>>}, {<<1, 2>>, <<2, 1>>}})
    \/ InitIterate(<<2, 1>>, {AndOf(Atom("EQ", Ref(2, 1), Ref(1, 2)),
                                    Atom("GT", Ref(1, 1), Lit(0)))},
                   {{<<1, 2>>}})
    \/ InitIterate(<<1, 1, 1>>, {NoPred}, {{}})
    \/ InitIterate(<<1, 1, 1>>, Preds3, AllIndexSets(<<1, 1, 1>>))

Next ==
    \/ iterate
    \/ iterate_one_table_fetch
    \/ iterate_one_table_call
    \/ iterate_two_tables_begin
    \/ iterate_two_tables_outer
    \/ iterate_two_tables_inner
    \/ iterate_two_tables_call
    \/ iterate_many_tables
    \/ iterate_many_tables_impl_enter
    \/ iterate_many_tables_impl_loop
    \/ iterate_many_tables_impl_call
    \/ iterate_many_tables_finish

Spec == Init /\ [][Next]_vars

(***************************************************************************)
(* What a run is compared with.                                            *)
(***************************************************************************)
IsDiagnostic(m) ==
    m \in {EvalMsg, "[Error] Table not found!", "[Error] Column not found!"}
Diagnostics == SelectSeq(log, IsDiagnostic)

\* Which access path ran.
TwoRan == two.tb1 # 0
ManyRan == plan # PlanIdle

\* The Cartesian product of the tables: a record handle per position.
Product ==
    {b \in [Positions -> 1..MaxRows] :
        \A i \in Positions : b[i] <= RowCount(required_tables[i])}
PosOf(t) == CHOOSE i \in Positions : required_tables[i] = t
BindOf(b) == [t \in DOMAIN schema |-> b[PosOf(t)]]
\* The rowids of a combination, by table.
RidsOf(b) == [t \in DOMAIN schema |-> Rid(t, b[PosOf(t)])]
Passing == {b \in Product : cond = 0 \/ EvalBool(cond, BindOf(b)) = 1}

\* The rowids of a consumer invocation, by table.
CallRids(c) ==
    [t \in DOMAIN schema |->
        c.rids[CHOOSE i \in DOMAIN c.tables : c.tables[i] = t]]
CallSet == {CallRids(calls[k]) : k \in DOMAIN calls}

\* The consumer was invoked exactly once on each combination of S.
InvokedExactlyOn(S) ==
    /\ CallSet = {RidsOf(b) : b \in S}
    /\ Len(calls) = Cardinality(S)

(***************************************************************************)
(* C1: iterate_many_tables with a predicate, every reference resolving,    *)
(* no evaluation error and a consumer that always continues invokes the    *)
(* consumer on exactly the combinations of the Cartesian product on which  *)
(* the full predicate is TRUE, each once, whatever the indexes and path.   *)
(***************************************************************************)
C1_ManyTablesExact ==
    (pc = "done" /\ ManyRan /\ cond # 0 /\ ~stopped /\ raised = 0)
        => InvokedExactlyOn(Passing)

\* Three tables joined along a chain of two index probes, with passing
\* and failing combinations.
C1_Witness ==
    /\ pc = "done" /\ ManyRan /\ cond # 0 /\ ~stopped /\ raised = 0
    /\ N = 3 /\ plan.max_depth = 2
    /\ Len(calls) >= 1
    /\ Cardinality(Product) > Len(calls)

(***************************************************************************)
(* C2: for two tables and a predicate that is an equality of two column    *)
(* references, the index join, when it accepts, invokes the consumer on    *)
(* the same multiset of rowid pairs as nested enumeration filtered by the  *)
(* predicate.                                                              *)
(***************************************************************************)
C2_IndexJoinAsEnumeration ==
    (pc = "done" /\ TwoRan /\ ~stopped /\ raised = 0)
        => InvokedExactlyOn(Passing)

(***************************************************************************)
(* C3: once the consumer has returned false it is never invoked again.     *)
(***************************************************************************)
C3_StopHalts == [][stopped => calls' = calls]_vars

(***************************************************************************)
(* C4: the consumer is invoked at most once per combination of rowids,     *)
(* and a declined two-table index strategy has read no record and made no  *)
(* consumer call when the many-table path begins.                          *)
(***************************************************************************)
C4_AtMostOnce ==
    /\ \A j, k \in DOMAIN calls : j # k => CallRids(calls[j]) # CallRids(calls[k])
    /\ pc = "many_begin" => (calls = <<>> /\ nread = 0)

\* The index strategy declined and the many-table path then made calls.
C4_Witness ==
    /\ pc = "done" /\ N = 2 /\ ~TwoRan /\ ManyRan
    /\ Len(calls) >= 2

(***************************************************************************)
(* C5: at every consumer invocation, for every position i the row bound    *)
(* in the row cache of tables[i] is records[i], its rowid is rowids[i],    *)
(* and the predicate, when present, is TRUE on the bound rows.             *)
(***************************************************************************)
C5_BoundRows ==
    \A k \in DOMAIN calls :
        LET c == calls[k] IN
        /\ \A i \in DOMAIN c.tables :
              /\ c.bound[c.tables[i]] = c.records[i]
              /\ c.records[i] # 0
              /\ Rid(c.tables[i], c.records[i]) = c.rids[i]
        /\ cond # 0 => EvalBool(cond, c.bound) = 1

\* Calls made by the index join with the tables swapped, and by a chain
\* of index probes over three tables.
C5_Witness ==
    \/ /\ TwoRan /\ table_list # required_tables /\ Len(calls) >= 2
    \/ /\ ManyRan /\ N = 3 /\ plan.max_depth >= 1 /\ Len(calls) >= 2 /\ pc = "impl_call"

(***************************************************************************)
(* C6: when an evaluation of the predicate or of a join conjunct raises,   *)
(* exactly one diagnostic is written, no further record is read, the       *)
(* consumer is not invoked again and the calls made before stay.           *)
(***************************************************************************)
C6_ErrorAborts ==
    /\ [](raised >= 1 => (raised = 1 /\ Len(Diagnostics) = 1))
    /\ [][raised >= 1 => (nread' = nread /\ calls' = calls)]_vars

\* An evaluation raised after the consumer had been invoked.
C6_Witness == raised = 1 /\ Len(calls) >= 1 /\ pc = "done"

(***************************************************************************)
(* C7: with no predicate, iterate over two or more tables completes        *)
(* normally and invokes the consumer once for every combination of the     *)
(* Cartesian product.                                                      *)
(***************************************************************************)
C7_NullPredicate ==
    (cond = 0 /\ N >= 2) =>
        /\ pc # "crashed"
        /\ (pc = "done" /\ ~stopped) => InvokedExactlyOn(Product)

(***************************************************************************)
(* The order selection of iterate_many_tables on its own: the join graph   *)
(* is drawn freely, the two steps are the longest-path loop and the        *)
(* iteration sequence.                                                     *)
(***************************************************************************)
Matrices(n) == [0..(n - 1) -> [0..(n - 1) -> {0, 1}]]

InitPlan ==
    \E n \in 2..MaxPlanTables : \E E \in Matrices(n) :
        /\ schema = [t \in 1..n |-> 1]
        /\ data = [t \in 1..n |-> <<>>]
        /\ idx = {}
        /\ required_tables = [i \in 0..(n - 1) |-> i + 1]
        /\ nodes = <<>>
        /\ cond = 0
        /\ pc = "plan_longest"
        /\ cache = [t \in 1..n |-> 0]
        /\ table_list = required_tables
        /\ record_list = [i \in 0..(n - 1) |-> 0]
        /\ rid_list = [i \in 0..(n - 1) |-> 0]
        /\ calls = <<>>
        /\ stopped = FALSE
        /\ log = <<>>
        /\ nread = 0
        /\ raised = 0
        /\ two = TwoIdle
        /\ plan = [PlanIdle EXCEPT !.E = E]
        /\ frames = [i \in 0..(n - 1) |-> [seq |-> <<>>, it |-> 0]]
        /\ now = 0
        /\ bit = [pos |-> 0, rid |-> 0]
        /\ stmt = [kind |-> "plan"]

\* The loop over the start vertices.
longest_path ==
    /\ pc = "plan_longest"
    /\ LET m == FindLongest(plan.E)
       IN plan' = [plan EXCEPT !.max_depth = m.max_depth, !.start = m.start,
                               !.path = m.path]
    /\ pc' = "plan_sequence"
    /\ UNCHANGED <<config, data, cache, table_list, record_list, rid_list, calls,
                   stopped, log, nread, raised, two, frames, now, bit, stmt>>

\* The rerun with the depth found, its assertion, and the appended rest.
generate_sequence ==
    /\ pc = "plan_sequence"
    /\ \E uninit \in {0, IntMax} :
          LET g == GenerateSequence(plan.E, plan.max_depth, plan.start, plan.path,
                                    uninit)
          IN IF g.found
             THEN /\ plan' = [plan EXCEPT !.path = g.path]
                  /\ pc' = "plan_done"
             ELSE /\ pc' = "assert_failed"
                  /\ UNCHANGED plan
    /\ UNCHANGED <<config, data, cache, table_list, record_list, rid_list, calls,
                   stopped, log, nread, raised, two, frames, now, bit, stmt>>

NextPlan == longest_path \/ generate_sequence

SpecPlan == InitPlan /\ [][NextPlan]_vars

(***************************************************************************)
(* C8: for every join graph E over n tables the planner's path is a        *)
(* permutation of 0..n-1 whose first max_depth + 1 entries are a simple    *)
(* path in E, the other vertices following in ascending order.             *)
(***************************************************************************)
C8_PlannerPath ==
    /\ pc # "assert_failed"
    /\ pc = "plan_done" =>
          LET path == plan.path
              d == plan.max_depth
          IN /\ DOMAIN path = Positions
             /\ {path[i] : i \in Positions} = Positions
             /\ \A i, j \in Positions : i # j => path[i] # path[j]
             /\ d \in Positions
             /\ \A i \in Positions : i < d => plan.E[path[i]][path[i + 1]] = 1
             /\ \A i, j \in Positions : (d < i /\ i < j) => path[i] < path[j]

\* A chain of one edge on three tables, the vertex left over lying before
\* the chain's start, in a graph with a cycle.
C8_Witness ==
    /\ pc = "plan_done" /\ N = 3 /\ plan.max_depth = 1
    /\ plan.path[2] < plan.path[0]
    /\ \E a, b \in Positions : a # b /\ plan.E[a][b] = 1 /\ plan.E[b][a] = 1

(***************************************************************************)
(* dbms::delete_rows.  stmt holds its locals: delete_list, the position k  *)
(* of the range-for, counter; and, for the properties, the records as they *)
(* were at entry (data0) and the rowids remove_record was called on.       *)
(***************************************************************************)
\* table_manager::remove_record(rid) when it succeeds.
remove_record(d, t, rid) == [d EXCEPT ![t] = SelectSeq(@, LAMBDA r : r.rid # rid)]

InitDelete ==
    \E d \in Databases(<<2>>), p \in Preds1, o \in BOOLEAN, tb \in {1, Unknown} :
        /\ schema = <<2>>
        /\ data = d
        /\ idx = {}
        /\ required_tables = [i \in {0} |-> 1]
        /\ nodes = p.nodes
        /\ cond = p.root
        /\ Idle("delete_rows")
        /\ stmt = [kind |-> "delete", open |-> o, table |-> tb, delete_list |-> <<>>,
                   k |-> 1, counter |-> 0, removed |-> <<>>, data0 |-> d]

\* Entry: the database must be open and the table must exist; then
\* iterate_one_table starts.
delete_rows ==
    /\ pc = "delete_rows"
    /\ IF ~stmt.open
       THEN /\ pc' = "done"
            /\ UNCHANGED <<log, bit, cache>>
       ELSE IF stmt.table \notin DOMAIN schema
       THEN /\ log' = Append(log, "[Error] table doesn't exists.")
            /\ cache' = ClearedCache
            /\ pc' = "done"
            /\ UNCHANGED bit
       ELSE /\ pc' = "one_loop"
            /\ bit' = [pos |-> 1, rid |-> 0]
            /\ UNCHANGED <<log, cache>>
    /\ UNCHANGED <<config, data, table_list, record_list, rid_list, calls,
                   stopped, nread, raised, two, plan, frames, now, stmt>>

\* A lambda that removes the record at once instead of collecting it.
delete_rows_callback_InPlace ==
    /\ pc = "one_call"
    /\ stmt.kind = "delete"
    /\ data' = remove_record(data, required_tables[0], bit.rid)
    /\ stmt' = [stmt EXCEPT !.removed = Append(@, bit.rid), !.counter = @ + 1]
    /\ bit' = [bit EXCEPT !.pos = @ + 1]
    /\ pc' = "one_loop"
    /\ UNCHANGED <<config, cache, table_list, record_list, rid_list, calls,
                   stopped, log, nread, raised, two, plan, frames, now>>

\* The lambda handed to iterate_one_table: push the rowid, return true.
delete_rows_callback ==
    /\ pc = "one_call"
    /\ stmt.kind = "delete"
    /\ stmt' = [stmt EXCEPT !.delete_list = Append(@, bit.rid)]
    /\ bit' = [bit EXCEPT !.pos = @ + 1]
    /\ pc' = "one_loop"
    /\ UNCHANGED <<config, data, cache, table_list, record_list, rid_list, calls,
                   stopped, log, nread, raised, two, plan, frames, now>>

\* One turn of the range-for over delete_list, and after it the summary
\* and the return, on which __cache_clear_guard clears the row caches.
delete_rows_remove ==
    /\ pc = "delete_remove"
    /\ IF stmt.k > Len(stmt.delete_list)
       THEN /\ log' = Append(log, "[Info] row(s) deleted.")
            /\ cache' = ClearedCache
            /\ pc' = "done"
            /\ UNCHANGED <<data, stmt>>
       ELSE \E ok \in BOOLEAN :
            LET rid == stmt.delete_list[stmt.k] IN
            /\ data' = IF ok THEN remove_record(data, required_tables[0], rid) ELSE data
            /\ stmt' = [stmt EXCEPT !.k = @ + 1,
                                    !.counter = @ + (IF ok THEN 1 ELSE 0),
                                    !.removed = Append(@, rid)]
            /\ UNCHANGED <<log, cache, pc>>
    /\ UNCHANGED <<config, table_list, record_list, rid_list, calls, stopped,
                   nread, raised, two, plan, frames, now, bit>>

NextDelete ==
    \/ delete_rows
    \/ iterate_one_table_fetch
    \/ delete_rows_callback
    \/ delete_rows_remove

SpecDelete == InitDelete /\ [][NextDelete]_vars

\* The rowids of the records the scan read and found passing, in scan
\* order, judged on the records as they were at entry.
RECURSIVE PassedUpTo(_)
PassedUpTo(h) ==
    IF h = 0 THEN <<>>
    ELSE LET t == required_tables[0]
             r == IF cond = 0 THEN 1
                  ELSE EvalBoolOn(stmt.data0, cond, [x \in DOMAIN schema |-> h])
         IN IF r = 1 THEN Append(PassedUpTo(h - 1), stmt.data0[t][h].rid)
            ELSE PassedUpTo(h - 1)
PassedInScan == PassedUpTo(nread)

IsPrefix(a, b) == Len(a) <= Len(b) /\ a = SubSeq(b, 1, Len(a))

(***************************************************************************)
(* C9: DELETE is two-phase.  While the scan is in progress remove_record   *)
(* has not been called and the table is untouched; after it remove_record  *)
(* is called exactly once on each rowid whose row passed the predicate     *)
(* during the scan and on no other; when every removal succeeded the table *)
(* holds exactly the rows that did not pass.                               *)
(***************************************************************************)
C9_DeleteTwoPhase ==
    LET t == required_tables[0] IN
    /\ pc \in {"delete_rows", "one_loop", "one_call"} =>
          (stmt.removed = <<>> /\ data = stmt.data0)
    /\ pc = "delete_remove" => IsPrefix(stmt.removed, PassedInScan)
    /\ (pc = "done" /\ stmt.open /\ stmt.table \in DOMAIN schema) =>
          /\ stmt.removed = PassedInScan
          /\ \A i, j \in DOMAIN stmt.removed :
                i # j => stmt.removed[i] # stmt.removed[j]
          /\ stmt.counter = Len(stmt.removed) =>
                data[t] = SelectSeq(stmt.data0[t],
                              LAMBDA r : \A i \in DOMAIN PassedInScan :
                                             PassedInScan[i] # r.rid)

\* A finished DELETE that removed a row lying behind one it kept.
C9_Witness ==
    /\ pc = "done" /\ raised = 0
    /\ Len(stmt.removed) >= 1 /\ stmt.counter = Len(stmt.removed)
    /\ Len(data[1]) >= 1
    /\ data[1][1].rid < stmt.removed[1]

(***************************************************************************)
(* dbms::insert_rows.  stmt holds the statement (columns: <<>> for a null   *)
(* column list, else the column names; values: the value tuples, each a    *)
(* sequence of expression nodes) and the locals: cols_id, the position     *)
(* list of the outer loop, the position expr of the inner loop, succ, the  *)
(* temp record and the two counters; and, for the properties, the records *)
(* as they were at entry (data0).                                          *)
(***************************************************************************)
MaxTuples == 2

\* The expressions of the value tuples: 1 is the literal 1, 3 is 1 / 0,
\* which expression::eval throws on, 4 is a string literal.
InsertNodes ==
    <<Lit(1), Lit(0), Bin("DIV", 1, 2), [Lit(0) EXCEPT !.term = "LITERAL_STRING"]>>
ValueExprs == {1, 3, 4}
Tuples == UNION {[1..k -> ValueExprs] : k \in 1..2}
ValueLists == UNION {[1..k -> Tuples] : k \in 0..MaxTuples}
ColumnLists == {<<>>, <<1>>, <<2, 1>>, <<3>>}

\* typecast::type_compatible for the INT columns of the table.
type_compatible(n) == nodes[n].term # "LITERAL_STRING"

InitInsert ==
    \E vl \in ValueLists, cl \in ColumnLists,
       e \in {<<TRUE, 1>>, <<FALSE, 1>>, <<TRUE, Unknown>>},
       d0 \in {d \in Databases(<<2>>) : Len(d[1]) <= 1} :
        /\ schema = <<2>>
        /\ data = d0
        /\ idx = {}
        /\ required_tables = [i \in {0} |-> 1]
        /\ nodes = InsertNodes
        /\ cond = 0
        /\ Idle("insert_rows")
        /\ stmt = [kind |-> "insert", open |-> e[1], table |-> e[2], columns |-> cl,
                   values |-> vl, cols_id |-> <<>>, list |-> 1, expr |-> 1,
                   succ |-> TRUE, temp |-> <<0, 0>>, count_succ |-> 0,
                   count_fail |-> 0, data0 |-> d0]

\* Entry: database open, table found, column list resolved.
insert_rows ==
    /\ pc = "insert_rows"
    /\ IF ~stmt.open
       THEN /\ pc' = "done"
            /\ UNCHANGED <<log, stmt, cache>>
       ELSE IF stmt.table \notin DOMAIN schema
       THEN /\ log' = Append(log, "[Error] table not found.")
            /\ cache' = ClearedCache
            /\ pc' = "done"
            /\ UNCHANGED stmt
       ELSE IF stmt.columns = <<>>
       THEN /\ stmt' = [stmt EXCEPT !.cols_id = [i \in 1..schema[stmt.table] |-> i]]
            /\ pc' = "insert_tuple"
            /\ UNCHANGED <<log, cache>>
       ELSE IF \E i \in DOMAIN stmt.columns :
                  lookup_column(stmt.table, stmt.columns[i]) < 0
       THEN /\ log' = Append(log, "[Error] No column in table.")
            /\ cache' = ClearedCache
            /\ pc' = "done"
            /\ UNCHANGED stmt
       ELSE /\ stmt' = [stmt EXCEPT !.cols_id =
                           [i \in DOMAIN stmt.columns |->
                               lookup_column(stmt.table, stmt.columns[i])]]
            /\ pc' = "insert_tuple"
            /\ UNCHANGED <<log, cache>>
    /\ UNCHANGED <<config, data, table_list, record_list, rid_list, calls,
                   stopped, nread, raised, two, plan, frames, now, bit>>

\* A loop head that counts a tuple of the wrong size as a failure.
insert_rows_tuple_CountArity ==
    /\ pc = "insert_tuple"
    /\ IF stmt.list > Len(stmt.values)
       THEN /\ log' = Append(log, "[Info] row(s) inserted, row(s) failed.")
            /\ cache' = ClearedCache
            /\ pc' = "done"
            /\ UNCHANGED stmt
       ELSE IF Len(stmt.values[stmt.list]) # Len(stmt.cols_id)
       THEN /\ log' = Append(log, "[Error] column size not equal.")
            /\ stmt' = [stmt EXCEPT !.list = @ + 1, !.temp = <<0, 0>>,
                                    !.count_fail = @ + 1]
            /\ UNCHANGED <<pc, cache>>
       ELSE /\ stmt' = [stmt EXCEPT !.temp = <<0, 0>>, !.expr = 1, !.succ = TRUE]
            /\ pc' = "insert_value"
            /\ UNCHANGED <<log, cache>>
    /\ UNCHANGED <<config, data, table_list, record_list, rid_list, calls,
                   stopped, nread, raised, two, plan, frames, now, bit>>

\* Head of the outer loop: the summary after the last tuple, else
\* init_temp_record and the size test.
insert_rows_tuple ==
    /\ pc = "insert_tuple"
    /\ IF stmt.list > Len(stmt.values)
       THEN /\ log' = Append(log, "[Info] row(s) inserted, row(s) failed.")
            /\ cache' = ClearedCache
            /\ pc' = "done"
            /\ UNCHANGED stmt
       ELSE IF Len(stmt.values[stmt.list]) # Len(stmt.cols_id)
       THEN /\ log' = Append(log, "[Error] column size not equal.")
            /\ stmt' = [stmt EXCEPT !.list = @ + 1, !.temp = <<0, 0>>]
            /\ UNCHANGED <<pc, cache>>
       ELSE /\ stmt' = [stmt EXCEPT !.temp = <<0, 0>>, !.expr = 1, !.succ = TRUE]
            /\ pc' = "insert_value"
            /\ UNCHANGED <<log, cache>>
    /\ UNCHANGED <<config, data, table_list, record_list, rid_list, calls,
                   stopped, nread, raised, two, plan, frames, now, bit>>

\* One turn of the inner loop: evaluate, test the type, set_temp_record
\* (which may refuse the value).
insert_rows_value ==
    /\ pc = "insert_value"
    /\ LET tuple == stmt.values[stmt.list]
           n == tuple[stmt.expr]
           v == IF type_compatible(n) THEN EvalVal(n, cache) ELSE 0
       IN IF stmt.expr > Len(tuple)
          THEN FALSE
          ELSE IF v = Err
          THEN /\ log' = Append(log, EvalMsg)
               /\ raised' = raised + 1
               /\ cache' = ClearedCache
               /\ pc' = "done"
               /\ UNCHANGED stmt
          ELSE IF ~type_compatible(n)
          THEN /\ log' = Append(log, "[Error] incompatible type.")
               /\ cache' = ClearedCache
               /\ pc' = "done"
               /\ UNCHANGED <<stmt, raised>>
          ELSE \E accepted \in BOOLEAN :
               /\ stmt' = [stmt EXCEPT
                              !.temp = IF accepted
                                       THEN [@ EXCEPT ![stmt.cols_id[stmt.expr]] = v]
                                       ELSE @,
                              !.succ = accepted,
                              !.expr = @ + 1]
               /\ pc' = IF accepted /\ stmt.expr < Len(tuple)
                        THEN "insert_value" ELSE "insert_commit"
               /\ UNCHANGED <<log, raised, cache>>
    /\ UNCHANGED <<config, data, table_list, record_list, rid_list, calls,
                   stopped, nread, two, plan, frames, now, bit>>

\* table_manager::insert_record when it succeeds: the temp record under a
\* fresh rowid.
insert_record(d, t, temp) ==
    [d EXCEPT ![t] = Append(@, [rid |-> 10 * t + Len(@) + 1, v |-> temp])]

\* End of a turn of the outer loop: insert_record if succ, the counters.
insert_rows_commit ==
    /\ pc = "insert_commit"
    /\ \E inserted \in (IF stmt.succ THEN BOOLEAN ELSE {FALSE}) :
          /\ data' = IF inserted THEN insert_record(data, stmt.table, stmt.temp)
                     ELSE data
          /\ stmt' = [stmt EXCEPT !.succ = inserted,
                                  !.count_succ = @ + (IF inserted THEN 1 ELSE 0),
                                  !.count_fail = @ + (IF inserted THEN 0 ELSE 1),
                                  !.list = @ + 1]
    /\ pc' = "insert_tuple"
    /\ UNCHANGED <<config, cache, table_list, record_list, rid_list, calls,
                   stopped, log, nread, raised, two, plan, frames, now, bit>>

NextInsert ==
    \/ insert_rows
    \/ insert_rows_tuple
    \/ insert_rows_value
    \/ insert_rows_commit

SpecInsert == InitInsert /\ [][NextInsert]_vars

\* The loop over the value tuples was entered, and how the statement ended.
LoopEntered == stmt.cols_id # <<>>
Summarised ==
    pc = "done" /\ log # <<>>
        /\ log[Len(log)] = "[Info] row(s) inserted, row(s) failed."
\* The tuples of the wrong size among the first k.
WrongArity(k) ==
    Cardinality({i \in 1..k : Len(stmt.values[i]) # Len(stmt.cols_id)})

(***************************************************************************)
(* C10: INSERT processes every value tuple, each committed or counted as   *)
(* a failure, so that the statement always ends with count_succ +          *)
(* count_fail equal to the number of value tuples.                         *)
(***************************************************************************)
C10_EveryTupleCounted ==
    (pc = "done" /\ LoopEntered) =>
        stmt.count_succ + stmt.count_fail = Len(stmt.values)

(***************************************************************************)
(* C10, amended: the tuples are processed in order until an evaluation     *)
(* error or an incompatible type ends the statement without a summary; a   *)
(* tuple of the wrong size is skipped and counted nowhere; every other     *)
(* tuple is committed by one insert_record call and counted in count_succ  *)
(* or counted in count_fail.  With the summary written, count_succ +       *)
(* count_fail + the tuples of the wrong size = the number of tuples.       *)
(***************************************************************************)
C10_InsertAccounting ==
    LoopEntered =>
        LET done == stmt.list - 1 IN
        /\ done <= Len(stmt.values)
        /\ stmt.count_succ + stmt.count_fail + WrongArity(done) = done
        /\ Len(data[stmt.table]) = Len(stmt.data0[stmt.table]) + stmt.count_succ
        /\ Summarised => done = Len(stmt.values)
        /\ (pc = "done" /\ ~Summarised) =>
              /\ stmt.list <= Len(stmt.values)
              /\ \E i \in DOMAIN stmt.values[stmt.list] :
                    LET n == stmt.values[stmt.list][i]
                    IN ~type_compatible(n) \/ EvalVal(n, cache) = Err

\* A statement that ran to its summary with a committed tuple and a tuple
\* of the wrong size.
C10_Witness ==
    /\ Summarised /\ LoopEntered
    /\ stmt.count_succ >= 1
    /\ WrongArity(Len(stmt.values)) >= 1

(***************************************************************************)
(* dbms::update_rows.  stmt holds the statement (table, column, value: the *)
(* node of the right-hand side) and the locals col_id, succ_count and      *)
(* fail_count; and, for the properties, the records as they were at entry  *)
(* (data0) and the modify_record calls made (modified).                    *)
(***************************************************************************)
\* The right-hand sides: the constants 0 and 1, the column b, a string
\* literal, and 1 / a, which expression::eval throws on where a = 0.
UpdateValues ==
    {[nodes |-> <<Lit(0)>>, root |-> 1],
     [nodes |-> <<Lit(1)>>, root |-> 1],
     [nodes |-> <<Ref(1, 2)>>, root |-> 1],
     [nodes |-> <<[Lit(0) EXCEPT !.term = "LITERAL_STRING"]>>, root |-> 1],
     [nodes |-> <<Lit(1), Ref(1, 1), Bin("DIV", 1, 2)>>, root |-> 3]}

\* table_manager::modify_record(rid, col, bytes) when it succeeds.
modify_record(d, t, rid, col, val) ==
    [d EXCEPT ![t] = [h \in DOMAIN @ |->
        IF @[h].rid = rid THEN [@[h] EXCEPT !.v[col] = val] ELSE @[h]]]

InitUpdateWith(d, p, v, c, o, tb) ==
    /\ schema = <<2>>
    /\ data = d
    /\ idx = {}
    /\ required_tables = [i \in {0} |-> 1]
    /\ nodes = p.nodes \o [i \in 1..Len(v.nodes) |-> Shift(v.nodes[i], Len(p.nodes))]
    /\ cond = p.root
    /\ Idle("update_rows")
    /\ stmt = [kind |-> "update", open |-> o, table |-> tb, column |-> c,
               value |-> Len(p.nodes) + v.root, col_id |-> 0, succ_count |-> 0,
               fail_count |-> 0, data0 |-> d, modified |-> <<>>]

InitUpdate ==
    \/ \E d \in Databases(<<2>>), p \in Preds1, v \in UpdateValues, c \in 1..2 :
          InitUpdateWith(d, p, v, c, TRUE, 1)
    \/ \E d \in Databases(<<2>>), e \in {<<3, TRUE, 1>>, <<1, FALSE, 1>>, <<1, TRUE, Unknown>>} :
          InitUpdateWith(d, NoPred, [nodes |-> <<Lit(1)>>, root |-> 1], e[1], e[2], e[3])

\* Entry: database open, table found, column found; then iterate_one_table
\* starts.  Every return after the guard's construction clears the caches.
update_rows ==
    /\ pc = "update_rows"
    /\ IF ~stmt.open
       THEN /\ pc' = "done"
            /\ UNCHANGED <<log, bit, stmt, cache>>
       ELSE IF stmt.table \notin DOMAIN schema
       THEN /\ log' = Append(log, "[Error] table doesn't exists.")
            /\ cache' = ClearedCache
            /\ pc' = "done"
            /\ UNCHANGED <<bit, stmt>>
       ELSE IF lookup_column(stmt.table, stmt.column) < 0
       THEN /\ log' = Append(log, "[Error] column not exists.")
            /\ cache' = ClearedCache
            /\ pc' = "done"
            /\ UNCHANGED <<bit, stmt>>
       ELSE /\ stmt' = [stmt EXCEPT !.col_id = lookup_column(stmt.table, stmt.column)]
            /\ pc' = "one_loop"
            /\ bit' = [pos |-> 1, rid |-> 0]
            /\ UNCHANGED <<log, cache>>
    /\ UNCHANGED <<config, data, table_list, record_list, rid_list, calls,
                   stopped, nread, raised, two, plan, frames, now>>

\* A lambda that hands modify_record the first column whatever the target.
update_rows_callback_FirstColumn ==
    /\ pc = "one_call"
    /\ stmt.kind = "update"
    /\ data' = modify_record(data, stmt.table, bit.rid, 1, 1 - Col(stmt.table, bit.pos, 1))
    /\ stmt' = [stmt EXCEPT !.succ_count = @ + 1,
                            !.modified = Append(@, <<bit.rid, 1>>)]
    /\ bit' = [bit EXCEPT !.pos = @ + 1]
    /\ pc' = "one_loop"
    /\ UNCHANGED <<config, cache, table_list, record_list, rid_list, calls, stopped,
                   log, nread, raised, two, plan, frames, now>>

\* A lambda that returns false once modify_record has been called.
update_rows_callback_StopAfterFirst ==
    /\ pc = "one_call"
    /\ stmt.kind = "update"
    /\ data' = modify_record(data, stmt.table, bit.rid, stmt.col_id,
                             EvalVal(stmt.value, cache))
    /\ stmt' = [stmt EXCEPT !.succ_count = @ + 1,
                            !.modified = Append(@, <<bit.rid, stmt.col_id>>)]
    /\ pc' = "update_summary"
    /\ UNCHANGED <<config, cache, table_list, record_list, rid_list, calls, stopped,
                   log, nread, raised, two, plan, frames, now, bit>>

\* The lambda handed to iterate_one_table: evaluate the right-hand side,
\* test the type, modify_record, return true.  What it throws passes
\* through iterate_one_table to the catch clause of update_rows.
update_rows_callback ==
    /\ pc = "one_call"
    /\ stmt.kind = "update"
    /\ LET n == stmt.value
           val == IF type_compatible(n) THEN EvalVal(n, cache) ELSE 0
       IN IF val = Err
          THEN /\ log' = Append(log, EvalMsg)
               /\ raised' = raised + 1
               /\ cache' = ClearedCache
               /\ pc' = "done"
               /\ UNCHANGED <<data, stmt, bit>>
          ELSE IF ~type_compatible(n)
          THEN /\ log' = Append(log, "[Error] Incompatible data type.")
               /\ cache' = ClearedCache
               /\ pc' = "done"
               /\ UNCHANGED <<data, stmt, bit, raised>>
          ELSE \E ret \in BOOLEAN :
               /\ data' = IF ret
                          THEN modify_record(data, stmt.table, bit.rid, stmt.col_id, val)
                          ELSE data
               /\ stmt' = [stmt EXCEPT !.succ_count = @ + (IF ret THEN 1 ELSE 0),
                                       !.fail_count = @ + (IF ret THEN 0 ELSE 1),
                                       !.modified = Append(@, <<bit.rid, stmt.col_id>>)]
               /\ bit' = [bit EXCEPT !.pos = @ + 1]
               /\ pc' = "one_loop"
               /\ UNCHANGED <<log, raised, cache>>
    /\ UNCHANGED <<config, table_list, record_list, rid_list, calls, stopped,
                   nread, two, plan, frames, now>>

\* iterate_one_table has returned: the summary, and the return.
update_rows_summary ==
    /\ pc = "update_summary"
    /\ log' = Append(log, "[Info] row(s) updated, row(s) failed.")
    /\ cache' = ClearedCache
    /\ pc' = "done"
    /\ UNCHANGED <<config, data, table_list, record_list, rid_list, calls, stopped,
                   nread, raised, two, plan, frames, now, bit, stmt>>

NextUpdate ==
    \/ update_rows
    \/ iterate_one_table_fetch
    \/ update_rows_callback
    \/ update_rows_summary

SpecUpdate == InitUpdate /\ [][NextUpdate]_vars

UpdateSummarised ==
    pc = "done" /\ log # <<>>
        /\ log[Len(log)] = "[Info] row(s) updated, row(s) failed."
\* The WHERE predicate on the record at position h of the table as it is.
Satisfies(d, h) ==
    cond = 0 \/ EvalBoolOn(d, cond, [t \in DOMAIN schema |-> h]) = 1

(***************************************************************************)
(* C11: after UPDATE T SET C = v WHERE w with a constant v, every          *)
(* modify_record succeeding and no evaluation raising, every row of T that *)
(* satisfies w has C = v.                                                  *)
(***************************************************************************)
C11_UpdateThenSelect ==
    (/\ UpdateSummarised /\ raised = 0 /\ stmt.fail_count = 0
     /\ nodes[stmt.value].term = "LITERAL_INT") =>
        \A h \in 1..RowCount(stmt.table) :
            Satisfies(data, h) => Col(stmt.table, h, stmt.col_id) = nodes[stmt.value].val

\* An UPDATE that changed a row behind the first one, with a predicate, and
\* left a row that satisfies the predicate.
C11_Witness ==
    /\ UpdateSummarised /\ raised = 0 /\ stmt.fail_count = 0
    /\ nodes[stmt.value].term = "LITERAL_INT" /\ cond # 0
    /\ RowCount(1) >= 2
    /\ data[1][2] # stmt.data0[1][2]
    /\ \E h \in 1..RowCount(1) : Satisfies(data, h)

(***************************************************************************)
(* dbms::select_rows and dbms::select_rows_aggregate.  A run is one SELECT  *)
(* and, after a SELECT COUNT( * ), a second SELECT over the same tables and  *)
(* predicate; stmt.prev is the output of the first.                        *)
(***************************************************************************)
\* The nodes select lists are made of: a, a - k (negative on every row),
\* 1 / a (thrown on where a = 0), COUNT( * ), and SUM, AVG, MIN and MAX of
\* a, of a - k and of 1 / a.
SelectNodes ==
    <<Ref(1, 1), Lit(MaxVal + 3), Bin("SUB", 1, 2), Lit(1), Bin("DIV", 4, 1),
      Bin("COUNT", 0, 0),
      Bin("SUM", 1, 0), Bin("AVG", 1, 0), Bin("MIN", 1, 0), Bin("MAX", 1, 0),
      Bin("SUM", 3, 0), Bin("AVG", 3, 0), Bin("MIN", 3, 0), Bin("MAX", 3, 0),
      Bin("SUM", 5, 0), Bin("AVG", 5, 0), Bin("MIN", 5, 0), Bin("MAX", 5, 0)>>
CountStar == 6

\* The select lists without an aggregate: *, a, 1 / a, and a with 1 / a.
Projections == {<<>>, <<1>>, <<5>>, <<1, 5>>}
\* The select lists with one: a single aggregate, and two expressions.
AggregateLists == {<<n>> : n \in 6..18} \cup {<<CountStar, 1>>}
\* Select list and type of the columns.
SelectLists ==
    ((Projections \cup AggregateLists) \X {"INT", "FLOAT"})
        \cup ({<<1>>, <<7>>, <<10>>} \X {"STRING"})

SelectStmt(k, exprs, ft, o, tabs, prev) ==
    [kind |-> "select", open |-> o, tables |-> tabs,
     exprs |-> [i \in DOMAIN exprs |-> k + exprs[i]], ftype |-> ft,
     aggregate |-> FALSE, counter |-> 0, val_i |-> 0, val_f |-> 0,
     agg_type |-> "NONE", out |-> <<>>, prev |-> prev]

InitSelectWith(sch, preds, idxsets, lists, entries) ==
    /\ schema = sch
    /\ required_tables = [i \in 0..(Len(sch) - 1) |-> i + 1]
    /\ data \in Databases(sch)
    /\ idx \in idxsets
    /\ \E p \in preds, l \in lists, e \in entries :
          /\ nodes = p.nodes \o [i \in 1..Len(SelectNodes) |->
                                    Shift(SelectNodes[i], Len(p.nodes))]
          /\ cond = p.root
          /\ stmt = SelectStmt(Len(p.nodes), l[1], l[2], e[1],
                               [i \in 1..Len(sch) |-> IF i = e[2] THEN Unknown ELSE i],
                               <<>>)
    /\ Idle("select_rows")

InitSelect ==
    \/ InitSelectWith(<<2>>, Preds1, {{}}, SelectLists, {<<TRUE, 0>>})
    \/ InitSelectWith(<<2>>, {NoPred}, {{}}, {<<<<1>>, "INT">>},
                      {<<FALSE, 0>>, <<TRUE, 1>>})
    \/ InitSelectWith(<<1, 1>>, {Atom("LT", Ref(1, 1), Ref(2, 1)), E12},
                      {{}, {<<2, 1>>}}, {<<<<CountStar>>, "INT">>}, {<<TRUE, 0>>})

\* The begin values of the accumulators of select_rows_aggregate.
AggregateBegin(s, op) ==
    [s EXCEPT !.val_i = IF op = "MIN" THEN IntMax ELSE IF op = "MAX" THEN IntMin ELSE 0,
              !.val_f = IF op = "MIN" THEN FloatMax
                        ELSE IF op = "MAX" THEN FloatMinPositive ELSE 0]

\* Entry of select_rows up to the call of iterate: the database is open,
\* every table is found, the header is written; with an aggregate in the
\* select list, select_rows_aggregate takes over and wants the list to be
\* of one expression.  Every return after the guard's construction clears
\* the caches.
select_rows ==
    /\ pc = "select_rows"
    /\ IF ~stmt.open
       THEN /\ pc' = "done"
            /\ UNCHANGED <<log, stmt, cache>>
       ELSE IF \E i \in DOMAIN stmt.tables : stmt.tables[i] \notin DOMAIN schema
       THEN /\ log' = Append(log, "[Error] table doesn't exists.")
            /\ cache' = ClearedCache
            /\ pc' = "done"
            /\ UNCHANGED stmt
       ELSE LET agg == \E i \in DOMAIN stmt.exprs : is_aggregate(stmt.exprs[i])
                hdr == Line("header", IF stmt.exprs = <<>> THEN stmt.tables ELSE stmt.exprs)
                s1 == [stmt EXCEPT !.aggregate = agg, !.out = Append(@, hdr)]
            IN IF agg /\ Len(stmt.exprs) # 1
               THEN /\ log' = Append(log, "[Error] Support only for one select expression for aggregate select.")
                    /\ stmt' = s1
                    /\ cache' = ClearedCache
                    /\ pc' = "done"
               ELSE /\ stmt' = IF agg THEN AggregateBegin(s1, nodes[stmt.exprs[1]].op) ELSE s1
                    /\ pc' = "iterate"
                    /\ UNCHANGED <<log, cache>>
    /\ UNCHANGED <<config, data, table_list, record_list, rid_list, calls,
                   stopped, nread, raised, two, plan, frames, now, bit>>

\* What select_rows_aggregate writes once iterate has returned; no line
\* where it rejects the aggregate.
AggregateValue ==
    LET op == nodes[stmt.exprs[1]].op IN
    IF op = "COUNT" THEN <<Line("value", <<stmt.counter>>)>>
    ELSE IF stmt.agg_type \notin {"FLOAT", "INT"} THEN <<>>
    ELSE IF op = "AVG"
    THEN <<Line("quotient", <<IF stmt.agg_type = "INT" THEN FloatOf(stmt.val_i)
                              ELSE stmt.val_f, stmt.counter>>)>>
    ELSE IF stmt.agg_type = "FLOAT" THEN <<Line("value", <<Format_f(stmt.val_f)>>)>>
    ELSE <<Line("value", <<stmt.val_i>>)>>

AggregateRejected ==
    /\ stmt.aggregate
    /\ nodes[stmt.exprs[1]].op # "COUNT"
    /\ stmt.agg_type \notin {"FLOAT", "INT"}

\* iterate has returned: the aggregate's value if there is one, the
\* summary and the closing line; then the return.
select_rows_finish ==
    /\ pc = "select_finish"
    /\ IF AggregateRejected
       THEN /\ log' = Append(log, "[Error] Aggregate only support for int and float type.")
            /\ UNCHANGED stmt
       ELSE /\ log' = Append(log, "[Info] row(s) selected.")
            /\ stmt' = [stmt EXCEPT !.out =
                           (IF stmt.aggregate THEN @ \o AggregateValue ELSE @)
                               \o <<Line("blank", <<>>)>>]
    /\ cache' = ClearedCache
    /\ pc' = "done"
    /\ UNCHANGED <<config, data, table_list, record_list, rid_list, calls,
                   stopped, nread, raised, two, plan, frames, now, bit>>

\* The next statement of the batch after a completed SELECT COUNT( * ): a
\* SELECT without aggregate over the same tables and predicate.
next_statement ==
    /\ pc = "done"
    /\ stmt.aggregate /\ stmt.prev = <<>> /\ Len(stmt.exprs) = 1
    /\ nodes[stmt.exprs[1]].op = "COUNT"
    /\ \E l \in Projections :
          stmt' = SelectStmt(stmt.exprs[1] - CountStar, l, stmt.ftype, TRUE,
                             stmt.tables, stmt.out)
    /\ pc' = "select_rows"
    /\ calls' = <<>>
    /\ stopped' = FALSE
    /\ nread' = 0
    /\ raised' = 0
    /\ two' = TwoIdle
    /\ plan' = PlanIdle
    /\ UNCHANGED <<config, data, cache, table_list, record_list, rid_list, log,
                   frames, now, bit>>

NextSelect ==
    \/ select_rows
    \/ select_rows_finish
    \/ next_statement
    \/ Next

SpecSelect == InitSelect /\ [][NextSelect]_vars

(***************************************************************************)
(* What an aggregate SELECT over one table is compared with.               *)
(***************************************************************************)
\* The first statement of the run has returned without a thrown message.
AggregateDone(ops) ==
    /\ pc = "done" /\ stmt.kind = "select" /\ stmt.open /\ N = 1
    /\ stmt.aggregate /\ Len(stmt.exprs) = 1
    /\ nodes[stmt.exprs[1]].op \in ops
    /\ EvalMsg \notin {log[i] : i \in DOMAIN log}

\* The rows of the table that pass the predicate, and the values of the
\* inner expression on them.
PassingRows == {h \in 1..RowCount(required_tables[0]) : Satisfies(data, h)}
InnerValues ==
    {EvalVal(nodes[stmt.exprs[1]].left, [t \in DOMAIN schema |-> h]) : h \in PassingRows}
Least(S) == CHOOSE x \in S : \A y \in S : x <= y
Greatest(S) == CHOOSE x \in S : \A y \in S : x >= y
InnerType == ExprType(stmt.ftype, nodes[stmt.exprs[1]].left)
InUnits(v) == IF InnerType = "FLOAT" THEN FloatOf(v) ELSE v
Emits(v) == \E i \in DOMAIN stmt.out : stmt.out[i] = Line("value", <<v>>)
EmitsValue == \E i \in DOMAIN stmt.out : stmt.out[i].kind \in {"value", "quotient"}

(***************************************************************************)
(* C12: MIN (MAX) over a non-empty set of passing rows whose inner values  *)
(* are all int or all float emits the least (greatest) of those values,    *)
(* whatever their sign.                                                    *)
(***************************************************************************)
C12_MinMaxOfEverySign ==
    (/\ AggregateDone({"MIN", "MAX"})
     /\ InnerType \in {"INT", "FLOAT"}
     /\ PassingRows # {}) =>
        Emits(InUnits(IF nodes[stmt.exprs[1]].op = "MIN"
                      THEN Least(InnerValues) ELSE Greatest(InnerValues)))

(***************************************************************************)
(* C13: an aggregate SELECT whose set of passing rows is empty emits a     *)
(* value, the begin value of its accumulator: 0 for COUNT and SUM.         *)
(***************************************************************************)
C13_EmptySetEmitsBegin ==
    (/\ AggregateDone(AggregateOps)
     /\ PassingRows = {}) =>
        /\ EmitsValue
        /\ nodes[stmt.exprs[1]].op \in {"COUNT", "SUM"} => Emits(0)

(***************************************************************************)
(* SELECT COUNT( * ) followed by a SELECT without aggregate.                 *)
(***************************************************************************)
\* The second SELECT of the run has returned.
SecondDone ==
    pc = "done" /\ stmt.kind = "select" /\ stmt.prev # <<>> /\ stmt.out # <<>>
\* The value the first wrote, and the rows the second wrote.
CountWritten ==
    LET i == CHOOSE j \in DOMAIN stmt.prev : stmt.prev[j].kind = "value"
    IN stmt.prev[i].val[1]
RowsWritten == Cardinality({i \in DOMAIN stmt.out : stmt.out[i].kind = "row"})

MaxStatements == 2

\* The nodes of a batch: the WHERE predicate p, the select nodes (of which
\* the UPDATE and INSERT values are taken too) and a string literal.
BatchNodes(p) ==
    p.nodes \o [i \in 1..Len(SelectNodes) |-> Shift(SelectNodes[i], Len(p.nodes))]
            \o <<[Lit(0) EXCEPT !.term = "LITERAL_STRING"]>>
StringLit == Len(SelectNodes) + 1

UpdateStmt(o, tb, c, v) ==
    [kind |-> "update", open |-> o, table |-> tb, column |-> c, value |-> v,
     col_id |-> 0, succ_count |-> 0, fail_count |-> 0, data0 |-> data,
     modified |-> <<>>]
DeleteStmt(o, tb) ==
    [kind |-> "delete", open |-> o, table |-> tb, delete_list |-> <<>>,
     k |-> 1, counter |-> 0, removed |-> <<>>, data0 |-> data]
InsertStmt(o, tb, cl, vl) ==
    [kind |-> "insert", open |-> o, table |-> tb, columns |-> cl, values |-> vl,
     cols_id |-> <<>>, list |-> 1, expr |-> 1, succ |-> TRUE, temp |-> <<0, 0>>,
     count_succ |-> 0, count_fail |-> 0, data0 |-> data]

\* The statements of a batch, k being the number of nodes of the WHERE
\* predicate: SELECT *, a select list that throws where a = 0, SUM(a), two
\* expressions with an aggregate, an unknown table; UPDATE with a constant,
\* with 1 / a, with a string, of an unknown column, of an unknown table;
\* DELETE; INSERT of a row, of the column a (which no row is bound for),
\* of a string, into an unknown column, into an unknown table, of a tuple
\* of the wrong size.
Statements(k, o) ==
    {SelectStmt(k, l, "INT", o, <<1>>, <<>>) : l \in {<<>>, <<1, 5>>, <<7>>, <<CountStar, 1>>}}
    \cup {SelectStmt(k, <<1>>, "INT", o, <<Unknown>>, <<>>)}
    \cup {UpdateStmt(o, 1, 1, k + 4), UpdateStmt(o, 1, 2, k + 5),
          UpdateStmt(o, 1, 1, k + StringLit), UpdateStmt(o, 1, 3, k + 4),
          UpdateStmt(o, Unknown, 1, k + 4)}
    \cup {DeleteStmt(o, 1), DeleteStmt(o, Unknown)}
    \cup {InsertStmt(o, 1, <<>>, <<<<k + 4, k + 4>>>>),
          InsertStmt(o, 1, <<1>>, <<<<k + 1>>>>),
          InsertStmt(o, 1, <<1>>, <<<<k + StringLit>>>>),
          InsertStmt(o, 1, <<3>>, <<>>),
          InsertStmt(o, Unknown, <<>>, <<>>),
          InsertStmt(o, 1, <<>>, <<<<k + 4>>>>)}

WithSeq(s, n) ==
    [f \in DOMAIN s \cup {"seq"} |-> IF f = "seq" THEN n ELSE s[f]]

EntryOf(kind) ==
    IF kind = "select" THEN "select_rows"
    ELSE IF kind = "update" THEN "update_rows"
    ELSE IF kind = "delete" THEN "delete_rows"
    ELSE "insert_rows"
Entries == {"select_rows", "update_rows", "delete_rows", "insert_rows"}

InitBatch ==
    /\ schema = <<2>>
    /\ required_tables = [i \in {0} |-> 1]
    /\ data \in Databases(<<2>>)
    /\ idx = {}
    /\ \E p \in {NoPred, DivAtom(Ref(1, 1))} :
          nodes = BatchNodes(p) /\ cond = p.root
    /\ \E o \in BOOLEAN : stmt = [kind |-> "none", open |-> o, seq |-> 0]
    /\ Idle("done")

\* The statement before has returned: the next one is started.
top_level ==
    /\ pc = "done"
    /\ stmt.seq < MaxStatements
    /\ \E s \in Statements(Len(nodes) - StringLit, stmt.open) :
          /\ stmt' = WithSeq(s, stmt.seq + 1)
          /\ pc' = EntryOf(s.kind)
    /\ calls' = <<>>
    /\ stopped' = FALSE
    /\ log' = <<>>
    /\ nread' = 0
    /\ raised' = 0
    /\ UNCHANGED <<config, data, cache, table_list, record_list, rid_list,
                   two, plan, frames, now, bit>>

NextBatch ==
    \/ top_level
    \/ select_rows
    \/ iterate
    \/ iterate_one_table_fetch
    \/ iterate_one_table_call
    \/ select_rows_finish
    \/ update_rows
    \/ update_rows_callback
    \/ update_rows_summary
    \/ delete_rows
    \/ delete_rows_callback
    \/ delete_rows_remove
    \/ insert_rows
    \/ insert_rows_tuple
    \/ insert_rows_value
    \/ insert_rows_commit

SpecBatch == InitBatch /\ [][NextBatch]_vars

\* No table has a row in the cache.
NoRowBound == \A t \in DOMAIN schema : cache[t] = 0
\* A statement has returned after the open check.
Returned == pc = "done" /\ stmt.kind # "none" /\ stmt.open

(***************************************************************************)
(* C14: over a batch of statements, whenever select_rows, update_rows,     *)
(* delete_rows or insert_rows has returned after the open check the cache  *)
(* is clear, and every statement starts with a clear cache, so that none   *)
(* evaluates an expression on a row an earlier statement bound.            *)
(***************************************************************************)
C14_CacheClearedOnReturn ==
    /\ Returned => NoRowBound
    /\ pc \in Entries => NoRowBound

\* The second statement has returned on a thrown message, having read a
\* row, after a first that had bound a row too.
C14_Witness ==
    /\ Returned /\ stmt.seq = 2
    /\ nread >= 1
    /\ log # <<>> /\ log[Len(log)] = EvalMsg
    /\ data # stmt.data0 \/ stmt.kind = "select"
    /\ NoRowBound

(***************************************************************************)
(* What a run of iterate_one_table is compared with.                       *)
(***************************************************************************)
\* The predicate on the record at position h of the scanned table.
OnRecord(h) ==
    IF cond = 0 THEN 1 ELSE EvalBool(cond, [t \in DOMAIN schema |-> h])
\* The rowids of the records at positions 1..h on which the predicate is
\* TRUE, in physical order, up to the first record it throws on.
RECURSIVE TrueRecords(_)
TrueRecords(h) ==
    IF h = 0 THEN <<>>
    ELSE IF \E g \in 1..h : OnRecord(g) = Err THEN TrueRecords(h - 1)
    ELSE IF OnRecord(h) = 1
    THEN Append(TrueRecords(h - 1), Rid(required_tables[0], h))
    ELSE TrueRecords(h - 1)
\* The rowids the consumer was invoked with, in the order of the calls.
CalledRids == [k \in DOMAIN calls |-> calls[k].rids[0]]

(***************************************************************************)
(* C15: iterate_one_table invokes the consumer, in physical record order,  *)
(* for exactly the records on which the predicate is TRUE, up to the first *)
(* consumer stop or evaluation error, after which it returns; without a    *)
(* predicate for every record, and never for an empty table.               *)
(***************************************************************************)
C15_OneTableInOrder ==
    N = 1 =>
        LET all == TrueRecords(RowCount(required_tables[0])) IN
        /\ IsPrefix(CalledRids, all)
        /\ (pc = "done" /\ ~stopped) => CalledRids = all
        /\ stopped => pc = "done"
        /\ (pc = "done" /\ ~stopped /\ cond = 0) =>
              Len(calls) = RowCount(required_tables[0])

\* A failing record, then a passing one, then the return.
C15_Witness ==
    /\ N = 1 /\ pc = "done" /\ ~stopped /\ cond # 0 /\ raised = 0
    /\ RowCount(required_tables[0]) = 2
    /\ OnRecord(1) = 0 /\ OnRecord(2) = 1
    /\ Len(calls) = 1

(***************************************************************************)
(* C16: UPDATE changes nothing but the target column of rows that passed   *)
(* the WHERE predicate.  Every modify_record call is made with the rowid   *)
(* of a row the predicate is TRUE on and with the target column; the       *)
(* rowids of the table stay what they were at entry; a row the predicate   *)
(* is not TRUE on is unchanged, and so is every other column of a row it   *)
(* is TRUE on.                                                             *)
(***************************************************************************)
C16_UpdateFrame ==
    (stmt.kind = "update" /\ stmt.table \in DOMAIN schema) =>
        LET t == stmt.table
            d0 == stmt.data0
            target == lookup_column(t, stmt.column)
            passed == {d0[t][h].rid : h \in {g \in DOMAIN d0[t] : Satisfies(d0, g)}}
        IN /\ \A k \in DOMAIN stmt.modified :
                 stmt.modified[k][1] \in passed /\ stmt.modified[k][2] = target
           /\ DOMAIN data[t] = DOMAIN d0[t]
           /\ \A h \in DOMAIN d0[t] :
                 /\ data[t][h].rid = d0[t][h].rid
                 /\ ~Satisfies(d0, h) => data[t][h] = d0[t][h]
                 /\ \A c \in 1..schema[t] :
                       c # target => data[t][h].v[c] = d0[t][h].v[c]

\* Two rows, the predicate TRUE on one of them, whose second column was
\* given another value.
C16_Witness ==
    /\ UpdateSummarised /\ stmt.col_id = 2 /\ cond # 0
    /\ RowCount(stmt.table) = 2
    /\ Len(stmt.modified) = 1
    /\ \E h \in 1..2 : ~Satisfies(stmt.data0, h)
    /\ data # stmt.data0

(***************************************************************************)
(* What the planner's order selection is compared with.                    *)
(***************************************************************************)
\* The simple paths of E, as sequences of vertices.
SimplePaths(E) ==
    {q \in UNION {[1..k -> DOMAIN E] : k \in 1..Cardinality(DOMAIN E)} :
        /\ \A i, j \in DOMAIN q : i # j => q[i] # q[j]
        /\ \A i \in DOMAIN q : i < Len(q) => E[q[i]][q[i + 1]] = 1}
LongestPaths(E) ==
    {q \in SimplePaths(E) : \A r \in SimplePaths(E) : Len(r) <= Len(q)}
\* a comes before b or is b, lexicographically.
LexLeq(a, b) ==
    a = b \/ \E i \in DOMAIN a :
                /\ i \in DOMAIN b /\ a[i] < b[i]
                /\ \A j \in 1..(i - 1) : a[j] = b[j]
\* path[0..max_depth] as a sequence.
ChainOf(path, d) == [i \in 1..(d + 1) |-> path[i - 1]]

(***************************************************************************)
(* C18: for every join graph E, max_depth is the number of edges of a      *)
(* longest simple path of E, the rerun from the chosen start finds a path  *)
(* of that depth (its assertion holds), the start is the smallest vertex a *)
(* longest simple path begins at, and path[0..max_depth] is the            *)
(* lexicographically least longest simple path.                            *)
(***************************************************************************)
C18_LeastLongestPath ==
    /\ pc # "assert_failed"
    /\ pc \in {"plan_sequence", "plan_done"} =>
          /\ \A q \in LongestPaths(plan.E) : plan.max_depth = Len(q) - 1
          /\ \A q \in LongestPaths(plan.E) : plan.start <= q[1]
          /\ \E q \in LongestPaths(plan.E) : plan.start = q[1]
    /\ pc = "plan_done" =>
          LET chain == ChainOf(plan.path, plan.max_depth) IN
          /\ chain \in LongestPaths(plan.E)
          /\ chain[1] = plan.start
          /\ \A q \in LongestPaths(plan.E) : LexLeq(chain, q)

\* Three tables, no longest path beginning at vertex 0 and two of them
\* beginning at vertex 1.
C18_Witness ==
    /\ pc = "plan_done" /\ N = 3 /\ plan.max_depth = 2
    /\ plan.start = 1
    /\ \E q \in LongestPaths(plan.E) : q[1] = 1 /\ q # ChainOf(plan.path, 2)

(***************************************************************************)
(* C19: in the many-table executor every index probe is well-formed.  For  *)
(* each chain position i < max_depth the conjunct J[path[i]][path[i+1]]    *)
(* joins the tables of path[i] and path[i+1], index_ref[i] is an index     *)
(* that exists, on the column of path[i]'s table in that conjunct (the     *)
(* assertion holds), and index_cid[i] is the column of path[i+1]'s table   *)
(* in it; and when a frame reads its probe key, the table of path[now+1]   *)
(* is positioned on a record by the frame of level now + 1, which is       *)
(* active, and that record is the one in the cache.                        *)
(***************************************************************************)
C19_ProbeWellFormed ==
    /\ pc # "assert_failed"
    /\ ManyRan =>
          \A i \in Positions : i < plan.max_depth =>
              LET a == required_tables[plan.path[i]]
                  b == required_tables[plan.path[i + 1]]
                  c == plan.J[plan.path[i]][plan.path[i + 1]]
                  l == nodes[nodes[c].left]
                  r == nodes[nodes[c].right]
                  mine == IF l.tab = a THEN l ELSE r
                  other == IF l.tab = a THEN r ELSE l
              IN /\ c # 0
                 /\ mine.tab = a /\ other.tab = b
                 /\ plan.index_ref[i] = [tab |-> a, col |-> mine.col]
                 /\ <<a, mine.col>> \in idx
                 /\ plan.index_cid[i] = other.col
                 /\ other.col \in 1..schema[b]
    /\ (pc = "impl_enter" /\ now >= 0 /\ ManyRan /\ plan.index_ref[now] # NullIndex) =>
          LET up == now + 1
              o == required_tables[plan.path[up]]
          IN /\ up \in Positions
             /\ cache[o] # 0
             /\ frames[up].it \in 1..Len(frames[up].seq)
             /\ frames[up].seq[frames[up].it] = cache[o]
             /\ record_list[plan.path[up]] = cache[o]

\* A frame about to read its probe key, the conjunct of its edge naming
\* the probed table on the right and the two tables' columns differing.
C19_Witness ==
    /\ pc = "impl_enter" /\ ManyRan /\ plan.max_depth >= 1 /\ now = 0
    /\ LET c == plan.J[plan.path[0]][plan.path[1]] IN
          /\ nodes[nodes[c].right].tab = required_tables[plan.path[0]]
          /\ nodes[nodes[c].right].col # nodes[nodes[c].left].col
    /\ cache[required_tables[plan.path[1]]] # 0

(***************************************************************************)
(* C20: iterate over exactly two tables runs the index join if and only if *)
(* the root of the predicate is an EQ of two column references, both join  *)
(* columns resolve in their tables and at least one of the two join        *)
(* columns has an index; otherwise the strategy declines and the           *)
(* many-table path runs.  When the index join runs, the probed table has   *)
(* an index on its join column and the other table is the one scanned.     *)
(***************************************************************************)
JoinLeft == nodes[nodes[cond].left]
JoinRight == nodes[nodes[cond].right]

\* The root of the predicate is an EQ whose two operands are column
\* references.
JoinRoot ==
    /\ cond # 0
    /\ nodes[cond].op = "EQ"
    /\ JoinLeft.term = "COLUMN_REF"
    /\ JoinRight.term = "COLUMN_REF"

\* The join column named by the reference n resolves in its table.
Resolves(n) ==
    /\ n.tab \in {required_tables[i] : i \in Positions}
    /\ n.col \in 1..schema[n.tab]

Eligible ==
    /\ JoinRoot
    /\ Resolves(JoinLeft) /\ Resolves(JoinRight)
    /\ get_index(JoinLeft.tab, JoinLeft.col) \/ get_index(JoinRight.tab, JoinRight.col)

\* iterate has chosen between the index join and the many-table path.
StrategyChosen == N = 2 /\ pc \notin {"iterate", "two_begin"}

\* iterate_many_tables has been called: it is about to start, it runs, it
\* ended before its plan was stored (the dereference of a null predicate,
\* the assertion on the path), or it has returned.
ManyEntered ==
    \/ ManyRan
    \/ pc \in {"many_begin", "crashed", "assert_failed"}
    \/ \E k \in DOMAIN log : log[k] = ManyInfo

\* The reference n is the join column cid of the table tb.
JoinColumnOf(n, tb, cid) == n.tab = tb /\ n.col = cid

ProbeAndScan ==
    /\ {two.tb1, two.tb2} = {required_tables[i] : i \in Positions}
    /\ get_index(two.tb2, two.cid2)
    /\ \/ JoinColumnOf(JoinLeft, two.tb1, two.cid1) /\ JoinColumnOf(JoinRight, two.tb2, two.cid2)
       \/ JoinColumnOf(JoinRight, two.tb1, two.cid1) /\ JoinColumnOf(JoinLeft, two.tb2, two.cid2)
    /\ two.tb1_it \in 1..(RowCount(two.tb1) + 1)
    /\ (pc = "done" /\ ~stopped /\ raised = 0) => two.tb1_it = RowCount(two.tb1) + 1

C20_IndexJoinIffEligible ==
    StrategyChosen =>
        /\ TwoRan <=> Eligible
        /\ ~TwoRan => ManyEntered
        /\ TwoRan => (~ManyRan /\ ProbeAndScan)

\* The same statement for predicates whose two references name the two
\* different tables of the statement.
JoinsTheTwoTables ==
    JoinRoot =>
        {JoinLeft.tab, JoinRight.tab} = {required_tables[i] : i \in Positions}

C20_OnProperJoins == JoinsTheTwoTables => C20_IndexJoinIffEligible

C20_Witness ==
    /\ StrategyChosen /\ TwoRan /\ pc = "done" /\ ~stopped
    /\ JoinLeft.tab = two.tb2
    /\ ~get_index(two.tb1, two.cid1)
    /\ Len(calls) >= 1

(***************************************************************************)
(* C21: when the evaluation of the WHERE predicate raises during the scan  *)
(* of a DELETE the statement is aborted: remove_record is not called for   *)
(* the statement and the table is left as it was at entry.                 *)
(***************************************************************************)
C21_ErrorAbortsDelete ==
    (stmt.kind = "delete" /\ raised > 0) =>
        (stmt.removed = <<>> /\ data = stmt.data0)

\* The part of the statement that the code keeps: the scan ends at the
\* record whose evaluation raised, and what is removed afterwards are the
\* records found passing before it.
C21_ScanEndsAtError ==
    (stmt.kind = "delete" /\ raised > 0) =>
        /\ raised = 1
        /\ pc \in {"delete_remove", "done"}
        /\ IsPrefix(stmt.removed, stmt.delete_list)
        /\ Len(stmt.delete_list) < nread

(***************************************************************************)
(* C22: in every consumer invocation made by iterate the tables handed to  *)
(* the consumer are the tables passed to iterate, in the same order,       *)
(* whichever access path made the invocation.                              *)
(***************************************************************************)
C22_TablesAsPassed ==
    \A k \in DOMAIN calls : calls[k].tables = required_tables

\* What the code keeps: the one-table and many-table paths hand over the
\* tables as passed, and the index join hands over the scanned table
\* followed by the probed one.
C22_TablesByPath ==
    \A k \in DOMAIN calls :
        IF TwoRan
        THEN calls[k].tables = [i \in 0..1 |-> IF i = 0 THEN two.tb1 ELSE two.tb2]
        ELSE calls[k].tables = required_tables

\* An index join over two different tables, joined by a predicate that
\* names both, which scanned the second table of the statement.
C22_SwappedJoin ==
    /\ TwoRan /\ Len(calls) >= 1
    /\ JoinsTheTwoTables
    /\ two.tb1 = required_tables[1] /\ two.tb2 = required_tables[0]

(***************************************************************************)
(* C23: the many-table executor invokes the consumer in nested-loop order  *)
(* over the planned path, path[len-1] outermost and path[0] innermost.     *)
(* Between two consecutive invocations the rows at the path positions      *)
(* above the highest one that changed are the same, and at that position   *)
(* the row moved forward: in physical record order on a scanned level, in  *)
(* index-key order, from the lower bound of the key of the level above, on *)
(* a probed level.                                                         *)
(***************************************************************************)
\* The record of path position i in the invocation c.
RowAt(c, i) == c.records[plan.path[i]]

\* The path positions whose record differs between the invocations c and d.
Moved(c, d) == {i \in Positions : RowAt(c, i) # RowAt(d, i)}

Highest(S) == CHOOSE i \in S : \A j \in S : j <= i

\* Record g does not come after record h in the key order of the index of
\* table t on column col (the order among records of equal key is the
\* index's own).
KeyBefore(t, col, g, h) == Col(t, g, col) <= Col(t, h, col)

\* In the invocation d the record of path position i is one its level
\* iterates over: any record of a scanned table, a record whose key is not
\* below the key of the record of position i + 1 on a probed level.
InLevel(d, i) ==
    LET t == required_tables[plan.path[i]]
        ref == plan.index_ref[i]
    IN /\ RowAt(d, i) \in 1..RowCount(t)
       /\ ref # NullIndex =>
             LET o == required_tables[plan.path[i + 1]] IN
             /\ ref.tab = t
             /\ Col(t, RowAt(d, i), ref.col) >= Col(o, RowAt(d, i + 1), plan.index_cid[i])

\* From the invocation c to the next one d the record of position i moved
\* forward in the order of its level.
Forward(c, d, i) ==
    IF plan.index_ref[i] = NullIndex
    THEN RowAt(c, i) < RowAt(d, i)
    ELSE KeyBefore(plan.index_ref[i].tab, plan.index_ref[i].col, RowAt(c, i), RowAt(d, i))

C23_NestedLoopOrder ==
    ManyRan =>
        /\ \A k \in DOMAIN calls : \A i \in Positions : InLevel(calls[k], i)
        /\ \A k \in 1..(Len(calls) - 1) :
              LET c == calls[k]
                  d == calls[k + 1]
              IN /\ Moved(c, d) # {}
                 /\ Forward(c, d, Highest(Moved(c, d)))

\* A run with an index probe under a scan and two pairs of consecutive
\* invocations: between one the outer level moved and the probed level
\* started again, between the other only the probed level moved.
C23_Witness ==
    /\ ManyRan /\ plan.max_depth >= 1 /\ Len(calls) >= 3
    /\ \E k \in 1..(Len(calls) - 1) :
          /\ Highest(Moved(calls[k], calls[k + 1])) >= 1
          /\ 0 \in Moved(calls[k], calls[k + 1])
    /\ \E k \in 1..(Len(calls) - 1) :
          Highest(Moved(calls[k], calls[k + 1])) = 0

(***************************************************************************)
(* C24: in graph construction an equality conjunct between a column of     *)
(* table i and a column of table j inserts the edge E[i][j], with J[i][j]  *)
(* the conjunct, exactly when table i has an index on its join column, and *)
(* E[j][i] exactly when table j has one: every edge a -> b of E leaves a   *)
(* table a that has an index on its side of J[a][b], and a conjunct with   *)
(* no index on either side adds no edge.                                   *)
(***************************************************************************)
\* The conjuncts of the predicate that are an EQ of two column references.
JoinConjuncts ==
    IF cond = 0 THEN {}
    ELSE LET and_cond == extract_and_cond(cond) IN
         {and_cond[k] : k \in {k \in DOMAIN and_cond :
                                  /\ nodes[and_cond[k]].op = "EQ"
                                  /\ nodes[nodes[and_cond[k]].left].term = "COLUMN_REF"
                                  /\ nodes[nodes[and_cond[k]].right].term = "COLUMN_REF"}}

\* The two ways to read the conjunct c as a column x of the table at
\* position a and a column y of the table at position b.
Sides(c, a, b) ==
    {s \in {<<nodes[nodes[c].left], nodes[nodes[c].right]>>,
            <<nodes[nodes[c].right], nodes[nodes[c].left]>>} :
        s[1].tab = required_tables[a] /\ s[2].tab = required_tables[b]}

\* c joins the tables at a and b and the one at a has an index on its side.
FromIndexed(c, a, b) == \E s \in Sides(c, a, b) : get_index(s[1].tab, s[1].col)

\* c joins the tables at a and b and the one at b has an index on its side.
IntoIndexed(c, a, b) == \E s \in Sides(c, a, b) : get_index(s[2].tab, s[2].col)

\* The graph that the statement's conjuncts give: the one built at the
\* start of iterate_many_tables, and, once the order is chosen, the one
\* the executor runs on.
GraphBuilt == pc = "many_begin" /\ cond # 0 /\ BuildGraph(extract_and_cond(cond)).err = ""
GraphE == IF ManyRan THEN plan.E ELSE BuildGraph(extract_and_cond(cond)).E
GraphJ == IF ManyRan THEN plan.J ELSE BuildGraph(extract_and_cond(cond)).J

\* The statement as the claim has it: an edge points into the table that
\* has the index.
C24_EdgeIntoIndexed ==
    (GraphBuilt \/ ManyRan) =>
        \A a, b \in Positions :
            /\ GraphE[a][b] = 1 <=> \E c \in JoinConjuncts : IntoIndexed(c, a, b)
            /\ GraphE[a][b] = 1 =>
                  GraphJ[a][b] \in JoinConjuncts /\ IntoIndexed(GraphJ[a][b], a, b)

C24_EdgeFromIndexed ==
    (GraphBuilt \/ ManyRan) =>
        \A a, b \in Positions :
            /\ GraphE[a][b] = 1 <=> \E c \in JoinConjuncts : FromIndexed(c, a, b)
            /\ GraphE[a][b] = 1 =>
                  GraphJ[a][b] \in JoinConjuncts /\ FromIndexed(GraphJ[a][b], a, b)
            /\ GraphE[a][b] = 0 => GraphJ[a][b] = 0

\* A run on three tables whose graph has an edge one way only, between two
\* tables of which one has the index, and a join conjunct that added no
\* edge because neither of its columns has an index.
C24_Witness ==
    /\ ManyRan /\ N = 3
    /\ \E a, b \in Positions :
          /\ a # b /\ plan.E[a][b] = 1 /\ plan.E[b][a] = 0
          /\ \E c \in JoinConjuncts : FromIndexed(c, a, b) /\ ~IntoIndexed(c, a, b)
    /\ \E c \in JoinConjuncts : \E a, b \in Positions :
          /\ a # b /\ Sides(c, a, b) # {}
          /\ ~FromIndexed(c, a, b) /\ ~IntoIndexed(c, a, b)
====
